---- MODULE Spec2Model ----
(***************************************************************************)
(* Verification model of the vehicle / licence-plate recognition pipeline  *)
(* (python_yolo_fast_plate.py and python_yolo.py).                         *)
(*                                                                         *)
(*   SpecOcr    the background OCR scheduler (process_latest, the          *)
(*              _process_ocr threads, stop, get_latest_result)             *)
(*   SpecAssoc  vehicle filter, plate association and best-plate choice    *)
(*              of one frame, over bounded detection lists                 *)
(*   Spec       producer, bounded queue, DetectionWorker.run and the       *)
(*              caller's cleanup; FairSpec adds the thread fairness        *)
(*                                                                         *)
(* Text is a sequence of one-character strings.                            *)
(***************************************************************************)
EXTENDS Integers, Sequences, FiniteSets, TLC

\* ------------------------------------------------------------------ bounds
MaxRequests == 3
MaxVehicles == 2       \* longest vehicle detector output of SpecAssoc
MaxPlates == 2         \* longest plate detector output of SpecAssoc
FrameSize == 150       \* width and height of the frames in pixels
MaxFrames == 6         \* frames the video source delivers
MaxRaise == 1          \* frames whose processing raises an exception
MaxDigits == 10        \* most digits in an OCR text of SpecText
GarbageLen == 50       \* length of the long garbage texts of SpecText
MaxContours == 2       \* most contours found in a crop of SpecRect
MaxCoord == 2          \* largest coordinate of a corner point of SpecCorner

\* ------------------------------------------------------------ text helpers
Digits == {"0", "1", "2", "3", "4", "5", "6", "7", "8", "9"}

LowerSeq ==
  <<"a", "b", "c", "d", "e", "f", "g", "h", "i", "j", "k", "l", "m",
    "n", "o", "p", "q", "r", "s", "t", "u", "v", "w", "x", "y", "z">>

UpperSeq ==
  <<"A", "B", "C", "D", "E", "F", "G", "H", "I", "J", "K", "L", "M",
    "N", "O", "P", "Q", "R", "S", "T", "U", "V", "W", "X", "Y", "Z">>

Letters == {LowerSeq[i] : i \in 1..26} \cup {UpperSeq[i] : i \in 1..26}

WhiteSpace == {" ", "\t", "\n"}

\* the value None of a text-valued expression
None == <<"<None>">>

\* str.upper() of one character
upper(c) ==
  IF \E i \in 1..26 : LowerSeq[i] = c
  THEN UpperSeq[CHOOSE i \in 1..26 : LowerSeq[i] = c]
  ELSE c

\* char_map.get(char.upper(), char.upper())
char_map(c) ==
  LET u == upper(c) IN
  CASE u = "O" -> "0"
    [] u = "I" -> "1"
    [] u = "L" -> "1"
    [] u = "S" -> "5"
    [] u = "B" -> "8"
    [] u = "Z" -> "2"
    [] u = "G" -> "6"
    [] u = "Q" -> "0"
    [] u = "A" -> "4"
    [] u = "E" -> "3"
    [] OTHER -> u

\* "".join([char_map.get(char.upper(), char.upper()) for char in raw])
corrected_raw_text(raw) == [i \in 1..Len(raw) |-> char_map(raw[i])]

\* re.sub(r'[^0-9]', '', s)
numeric_only(s) == SelectSeq(s, LAMBDA c : c \in Digits)

\* s.replace('_', '')
replace_underscore(s) == SelectSeq(s, LAMBDA c : c # "_")

\* s.strip()
strip(s) ==
  LET keep == {i \in 1..Len(s) : s[i] \notin WhiteSpace} IN
  IF keep = {} THEN <<>>
  ELSE LET lo == CHOOSE i \in keep : \A j \in keep : i <= j
           hi == CHOOSE i \in keep : \A j \in keep : j <= i
       IN SubSeq(s, lo, hi)

\* Python slice s[a:b] with 0 <= a, b (0-based, end exclusive)
slice(s, a, b) ==
  LET e == IF b > Len(s) THEN Len(s) ELSE b IN
  IF a >= e THEN <<>> ELSE SubSeq(s, a + 1, e)

\* decimal digits of a natural number below 100 (str(len(...)))
str_int(n) ==
  LET d(k) == CHOOSE c \in Digits : \E i \in 1..10 :
                /\ <<"0", "1", "2", "3", "4", "5", "6", "7", "8", "9">>[i] = c
                /\ i - 1 = k
  IN IF n < 10 THEN <<d(n)>> ELSE <<d(n \div 10), d(n % 10)>>

Dash == <<"-">>
Or == <<" ", "o", "r", " ">>

format_nn_nnn_n(t) ==
  slice(t, 0, 2) \o Dash \o slice(t, 2, 5) \o Dash \o slice(t, 6, Len(t))

\* f"{t[:2]}-{t[2:5]}-{t[5:]}"
format_nn_nnn_nn(t) ==
  slice(t, 0, 2) \o Dash \o slice(t, 2, 5) \o Dash \o slice(t, 5, Len(t))

format_n_nnn_nnn(t) ==
  slice(t, 0, 1) \o Dash \o slice(t, 1, 4) \o Dash \o slice(t, 4, Len(t))

\* f"{t[:1]}-{t[1:5]}-{t[5:]}"
format_n_nnnn_nn(t) ==
  slice(t, 0, 1) \o Dash \o slice(t, 1, 5) \o Dash \o slice(t, 5, Len(t))

format_nn_nnn_nnn(t) ==
  slice(t, 0, 2) \o Dash \o slice(t, 2, 5) \o Dash \o slice(t, 5, Len(t))

\* f"{t[:3]}-{t[3:5]}-{t[5:]}"
format_nnn_nn_nnn(t) ==
  slice(t, 0, 3) \o Dash \o slice(t, 3, 5) \o Dash \o slice(t, 5, Len(t))

\* [a-zA-Z0-9]
AlnumClass == Digits \cup Letters

\* [-\\s] of the raw-string patterns: '-', a backslash, or the letter s
SepClass == {"-", "\\", "s"}

\* re.fullmatch(r"^[a-zA-Z0-9]{n1}[-\\s]?[a-zA-Z0-9]{n2}[-\\s]?[a-zA-Z0-9]{n3}$", s)
raw_re_fullmatch(n1, n2, n3, s) ==
  \E a \in 0..1, b \in 0..1 :
    /\ Len(s) = n1 + a + n2 + b + n3
    /\ \A i \in 1..n1 : s[i] \in AlnumClass
    /\ a = 1 => s[n1 + 1] \in SepClass
    /\ \A i \in 1..n2 : s[n1 + a + i] \in AlnumClass
    /\ b = 1 => s[n1 + a + n2 + 1] \in SepClass
    /\ \A i \in 1..n3 : s[n1 + a + n2 + b + i] \in AlnumClass

\* SimpleOCRWorker._validate_and_format_plate_by_rules
simple_validate_and_format_plate_by_rules(raw_ocr_text, numeric_plate_text) ==
  LET len_numeric == Len(numeric_plate_text)
      format1 == format_nn_nnn_nn(numeric_plate_text)
      format2 == format_n_nnnn_nn(numeric_plate_text)
      match_format1_hint == raw_re_fullmatch(2, 3, 2, raw_ocr_text)
      match_format2_hint == raw_re_fullmatch(1, 4, 2, raw_ocr_text)
  IN IF len_numeric = 7
     THEN IF match_format1_hint /\ ~match_format2_hint THEN format1
          ELSE IF match_format2_hint /\ ~match_format1_hint THEN format2
          ELSE format1 \o Or \o format2
     ELSE IF len_numeric = 8 THEN format_nnn_nn_nnn(numeric_plate_text)
     ELSE None

fast_rules_last_dropped_first(raw_ocr_text, numeric_plate_text) ==
  LET len_numeric == Len(numeric_plate_text)
      option1 == slice(numeric_plate_text, 1, len_numeric)
      option2 == slice(numeric_plate_text, 0, len_numeric - 1)
  IN IF len_numeric = 7 THEN format_nn_nnn_nn(numeric_plate_text)
     ELSE IF len_numeric = 8 THEN format_nnn_nn_nnn(numeric_plate_text)
     ELSE IF len_numeric = 9
          THEN format_nnn_nn_nnn(option2) \o Or \o format_nnn_nn_nnn(option1)
     ELSE None

\* FastPlateOCRWorker._validate_and_format_plate_by_rules
fast_validate_and_format_plate_by_rules(raw_ocr_text, numeric_plate_text) ==
  LET len_numeric == Len(numeric_plate_text)
      option1 == slice(numeric_plate_text, 1, len_numeric)
      option2 == slice(numeric_plate_text, 0, len_numeric - 1)
  IN IF len_numeric = 7 THEN format_nn_nnn_nn(numeric_plate_text)
     ELSE IF len_numeric = 8 THEN format_nnn_nn_nnn(numeric_plate_text)
     ELSE IF len_numeric = 9
          THEN format_nnn_nn_nnn(option1) \o Or \o format_nnn_nn_nnn(option2)
     ELSE None

fast_validate_rejects_nine(raw_text) ==
  LET clean_text == strip(replace_underscore(raw_text))
      numeric == numeric_only(clean_text)
  IN IF raw_text = <<>> THEN None
     ELSE IF Len(numeric) < 7 \/ Len(numeric) > 8 THEN None
     ELSE fast_validate_and_format_plate_by_rules(clean_text, numeric)

\* FastPlateOCRWorker._validate_and_format_plate
fast_validate_and_format_plate(raw_text) ==
  LET clean_text == strip(replace_underscore(raw_text))
      numeric == numeric_only(clean_text)
  IN IF raw_text = <<>> THEN None
     ELSE IF Len(numeric) < 7 \/ Len(numeric) > 9 THEN None
     ELSE fast_validate_and_format_plate_by_rules(clean_text, numeric)

\* the text part of SimpleOCRWorker._read_license_plate_trocr / _easyocr:
\* character map, digits, rules; the returned license_plate_text
simple_read_license_plate(raw_text_from_ocr) ==
  LET corrected == corrected_raw_text(raw_text_from_ocr)
  IN simple_validate_and_format_plate_by_rules(corrected, numeric_only(corrected))

\* truth value of a text in a Python condition
truthy(t) == t # None /\ t # <<>>

\* ------------------------------------------------------------ OCR scheduler
VARIABLES
  variant,          \* "fast" (python_yolo_fast_plate.py) or "simple" (python_yolo.py)
  ocr_recognizer,   \* FastPlateOCRWorker.ocr_recognizer is not None
  current_task,     \* the crop stored by process_latest (NoCrop = None)
  latest_result,    \* the shared latest-result slot
  processing,       \* the worker's processing flag
  ocr_stop_event,   \* ocr_worker.stop_event
  tasks,            \* the _process_ocr threads that were started and have not returned
  requested,        \* number of process_latest calls so far
  started           \* number of threads started so far

ocrVars ==
  <<variant, ocr_recognizer, current_task, latest_result, processing,
    ocr_stop_event, tasks, requested, started>>

\* one frame of DetectionWorker.run
VARIABLES
  show_vehicles, show_plates,     \* the worker's display switches
  wpc,                            \* where the worker stands in run()
  vehicle_detections_raw,         \* boxes.data.tolist() of the vehicle detector
  license_plates_raw,             \* boxes.data.tolist() of the plate detector
  detected_vehicles,
  detected_license_plates,
  best_license_plate_coords,
  best_score,
  results_dict                    \* the shared detection results

frameVars ==
  <<show_vehicles, show_plates, wpc, vehicle_detections_raw, license_plates_raw,
    detected_vehicles, detected_license_plates, best_license_plate_coords,
    best_score, results_dict>>

\* the threads of main(): producer / display loop, queue, detection worker
VARIABLES
  stop_event,               \* the stop signal shared by main and the worker
  detection_input_queue,    \* queue.Queue(maxsize=5): the items, oldest first
  unfinished_tasks,         \* the queue's count of items not yet task_done
  lock,                     \* results_lock: "free", "main" or "worker"
  mpc,                      \* where the main thread stands
  frame_nmr_display,        \* frames read so far (the code's counter + 1)
  frame_data,               \* the item the worker dequeued last
  frame_nmr_processed,
  ocr_interval,             \* the --ocr-interval argument
  ocr_processing_interval,
  enqueued,                 \* history: frames put into the queue, in order
  dropped,                  \* history: frames refused by the full queue
  drained,                  \* history: frames removed by the cleanup
  processed,                \* history: frames the worker dequeued, in order
  finished,                 \* history: frames whose iteration has ended
  raised                    \* history: frames whose processing raised

pipeVars ==
  <<stop_event, detection_input_queue, unfinished_tasks, lock, mpc,
    frame_nmr_display, frame_data, frame_nmr_processed, ocr_interval,
    ocr_processing_interval, enqueued, dropped, drained, processed,
    finished, raised>>

\* the text stage: one OCR text on its way through the validator
VARIABLES
  ocr_raw_text,             \* the text the OCR engine returned
  formatted,                \* what the validator returned for it
  tpc                       \* "idle", "input", "validated"

textVars == <<ocr_raw_text, formatted, tpc>>

\* the rectifier stage: one plate crop on its way through the rectifier
VARIABLES
  plate_crop_bgr,           \* the crop handed to the rectifier
  contours,                 \* what cv2.findContours and approxPolyDP give for it
  text_boxes,               \* the text regions found in it (fast-plate script)
  rectified,                \* the image the rectifier returned
  rpc                       \* "idle", "input", "rectified"

rectVars == <<plate_crop_bgr, contours, text_boxes, rectified, rpc>>

\* the corner ordering on its own: the four points, the ordered corners
VARIABLES
  corner_pts,
  ordered_rect,
  cpc

cornerVars == <<corner_pts, ordered_rect, cpc>>

\* the array object self.current_task refers to
VARIABLES
  current_task_buffer

bufferVars == <<current_task_buffer>>

stageVars == <<textVars, rectVars, cornerVars, bufferVars>>

vars == <<ocrVars, frameVars, pipeVars, stageVars>>

\* no text is being validated
IdleText ==
  /\ ocr_raw_text = <<>>
  /\ formatted = None
  /\ tpc = "idle"

NoImage == [w |-> 0, h |-> 0, pixels |-> "none"]

\* no crop is being rectified
IdleCorner ==
  /\ corner_pts = <<>>
  /\ ordered_rect = <<>>
  /\ cpc = "idle"

IdleRect ==
  /\ plate_crop_bgr = NoImage
  /\ contours = <<>>
  /\ text_boxes = <<>>
  /\ rectified = NoImage
  /\ rpc = "idle"

QueueNone == 0

effective_interval_negative_only(interval) == IF interval < 0 THEN 1 ELSE interval

\* the corrected interval of DetectionWorker.__init__
effective_interval(interval) == IF interval <= 0 THEN 1 ELSE interval

IdlePipe ==
  /\ stop_event = FALSE
  /\ detection_input_queue = <<>>
  /\ unfinished_tasks = 0
  /\ lock = "free"
  /\ mpc = "loop"
  /\ frame_nmr_display = 0
  /\ frame_data = QueueNone
  /\ frame_nmr_processed = 0
  /\ ocr_interval = 5
  /\ ocr_processing_interval = effective_interval(5)
  /\ enqueued = <<>>
  /\ dropped = {}
  /\ drained = {}
  /\ processed = <<>>
  /\ finished = {}
  /\ raised = {}

NoCrop == 0

\* an array object: the pixels it holds, the name the worker gives it, and
\* the places where it was copied on the way
NoBuffer == [pixels |-> NoCrop, object |-> "None", copies |-> <<>>]
NoResult == <<>>

\* "No plate detected"
NoPlateDetected ==
  <<"N", "o", " ", "p", "l", "a", "t", "e", " ",
    "d", "e", "t", "e", "c", "t", "e", "d">>

\* texts the OCR engines are taken to read off a crop
Text6 == <<"1", "2", "3", "4", "5", "6">>
Text7 == <<"1", "2", "3", "4", "5", "6", "7">>
OcrTexts == {<<>>, Text6, Text7}

\* values of ocr_recognizer.run(plate_gray): a list of strings
FastOcrResults == {<<>>} \cup {<<t>> : t \in OcrTexts}

\* f"Raw: {numeric_only} (len:{len(numeric_only)})"
raw_debug_text(raw_text) ==
  LET numeric == numeric_only(strip(replace_underscore(raw_text)))
  IN <<"R", "a", "w", ":", " ">> \o numeric
       \o <<" ", "(", "l", "e", "n", ":">> \o str_int(Len(numeric)) \o <<")">>

\* lines 136-157 of FastPlateOCRWorker._process_ocr: the value stored
fast_published(result) ==
  IF result # <<>> /\ result[1] # <<>>
  THEN LET formatted_text == fast_validate_and_format_plate(result[1])
       IN IF truthy(formatted_text) THEN formatted_text
          ELSE raw_debug_text(result[1])
  ELSE NoPlateDetected

NewTask(n) ==
  [id |-> n, pc |-> "entry", crop |-> NoCrop, result |-> NoResult, buffer |-> NoBuffer]

\* the plate image the detection worker holds for frame n when it asks for
\* OCR: python_yolo.py holds license_plate_crop_orig, a slice of the frame;
\* the fast-plate script holds license_plate_corrected, the rectifier's result
worker_buffer(n) ==
  [pixels |-> n,
   object |-> IF variant = "fast" THEN "license_plate_corrected"
              ELSE "license_plate_crop_orig",
   copies |-> <<>>]

copy_view(array, site) == array

\* ndarray.copy(): a new array object with the same pixels, made at `site`
copy(array, site) == [array EXCEPT !.copies = Append(@, site)]

\* process_latest(license_plate_crop)
process_latest(license_plate_crop) ==
  IF ~processing /\ ~ocr_stop_event /\ ocr_recognizer
  THEN /\ current_task' = license_plate_crop.pixels
       /\ current_task_buffer' = copy(license_plate_crop, "process_latest")
       /\ tasks' = tasks \cup {NewTask(started + 1)}
       /\ started' = started + 1
  ELSE UNCHANGED <<current_task, current_task_buffer, tasks, started>>

\* the detection worker asks for OCR of a new crop
Request ==
  /\ requested < MaxRequests
  /\ requested' = requested + 1
  /\ process_latest(copy(worker_buffer(requested + 1), "call"))
  /\ UNCHANGED <<variant, ocr_recognizer, latest_result, processing, ocr_stop_event>>
  /\ UNCHANGED <<frameVars, pipeVars, textVars, rectVars, cornerVars>>

\* ocr_worker.stop_event.set()
StopOcr ==
  /\ ~ocr_stop_event
  /\ ocr_stop_event' = TRUE
  /\ UNCHANGED <<stageVars, variant, ocr_recognizer, current_task, latest_result,
                 processing, tasks, requested, started>>
  /\ UNCHANGED <<frameVars, pipeVars, stageVars>>

Advance(t, f) == (tasks \ {t}) \cup {f}

\* the local `result` of a task whose OCR call raised (never read)
Unbound == << <<"<Unbound>">> >>

ocr_handler_missing(exc) == "escaped"

\* except Exception as e: the message, then the finally clause
ocr_handler(exc) == IF exc = "Exception" THEN "finally" ELSE "escaped"

\* _process_ocr, the entry test
TaskEntry(t) ==
  /\ t.pc = "entry"
  /\ IF current_task = NoCrop \/ ocr_stop_event \/ ~ocr_recognizer
     THEN /\ processing' = FALSE
          /\ tasks' = tasks \ {t}
     ELSE /\ tasks' = Advance(t, [t EXCEPT !.pc = "mark"])
          /\ UNCHANGED processing
  /\ UNCHANGED <<stageVars, variant, ocr_recognizer, current_task, latest_result,
                 ocr_stop_event, requested, started>>
  /\ UNCHANGED <<frameVars, pipeVars, stageVars>>

\* self.processing = True
TaskMark(t) ==
  /\ t.pc = "mark"
  /\ processing' = TRUE
  /\ tasks' = Advance(t, [t EXCEPT !.pc = "ocr"])
  /\ UNCHANGED <<stageVars, variant, ocr_recognizer, current_task, latest_result,
                 ocr_stop_event, requested, started>>
  /\ UNCHANGED <<frameVars, pipeVars, stageVars>>

\* the OCR call on self.current_task
TaskOcr(t) ==
  /\ t.pc = "ocr"
  /\ \/ /\ variant = "fast"
        /\ \E r \in FastOcrResults :
             tasks' = Advance(t, [t EXCEPT !.pc = "check", !.crop = current_task,
                                           !.buffer = current_task_buffer,
                                           !.result = r])
     \/ /\ variant = "fast"          \* cvtColor or the recognizer raises
        /\ tasks' = Advance(t, [t EXCEPT !.pc = ocr_handler("Exception"),
                                         !.crop = current_task,
                                         !.buffer = current_task_buffer,
                                         !.result = Unbound])
     \/ /\ variant = "simple"
        /\ \E raw \in OcrTexts :
             tasks' = Advance(t, [t EXCEPT !.pc = "check", !.crop = current_task,
                                           !.buffer = current_task_buffer,
                                           !.result = simple_read_license_plate(raw)])
     \/ /\ variant = "simple"        \* the reader caught an exception: (None, 0)
        /\ tasks' = Advance(t, [t EXCEPT !.pc = "check", !.crop = current_task,
                                         !.buffer = current_task_buffer,
                                         !.result = None])
  /\ UNCHANGED <<stageVars, variant, ocr_recognizer, current_task, latest_result,
                 processing, ocr_stop_event, requested, started>>
  /\ UNCHANGED <<frameVars, pipeVars, stageVars>>

cancel_check_skips_finally(stop) == IF stop THEN "returned" ELSE "publish"

\* if self.stop_event.is_set(): return -- a return inside the try block
\* runs the finally clause
cancel_check(stop) == IF stop THEN "finally" ELSE "publish"

\* the cancellation test after the OCR call
TaskCheck(t) ==
  /\ t.pc = "check"
  /\ tasks' = Advance(t, [t EXCEPT !.pc = cancel_check(ocr_stop_event)])
  /\ UNCHANGED <<stageVars, variant, ocr_recognizer, current_task, latest_result,
                 processing, ocr_stop_event, requested, started>>
  /\ UNCHANGED <<frameVars, pipeVars, stageVars>>

\* the assignment(s) to self.latest_result
TaskPublish(t) ==
  /\ t.pc = "publish"
  /\ latest_result' =
       IF variant = "fast" THEN fast_published(t.result)
       ELSE IF truthy(t.result) THEN t.result ELSE latest_result
  /\ tasks' = Advance(t, [t EXCEPT !.pc = "finally"])
  /\ UNCHANGED <<stageVars, variant, ocr_recognizer, current_task, processing,
                 ocr_stop_event, requested, started>>
  /\ UNCHANGED <<frameVars, pipeVars, stageVars>>

\* finally: self.processing = False
TaskFinally(t) ==
  /\ t.pc = "finally"
  /\ processing' = FALSE
  /\ tasks' = tasks \ {t}
  /\ UNCHANGED <<stageVars, variant, ocr_recognizer, current_task, latest_result,
                 ocr_stop_event, requested, started>>
  /\ UNCHANGED <<frameVars, pipeVars, stageVars>>

InitOcrVars ==
  /\ \/ variant = "fast" /\ ocr_recognizer \in BOOLEAN
     \/ variant = "simple" /\ ocr_recognizer = TRUE
  /\ current_task = NoCrop
  /\ current_task_buffer = NoBuffer
  /\ latest_result = NoPlateDetected
  /\ processing = FALSE
  /\ ocr_stop_event = FALSE
  /\ tasks = {}
  /\ requested = 0
  /\ started = 0

IdleFrame ==
  /\ show_vehicles = TRUE
  /\ show_plates = TRUE
  /\ wpc = "loop"
  /\ vehicle_detections_raw = <<>>
  /\ license_plates_raw = <<>>
  /\ detected_vehicles = <<>>
  /\ detected_license_plates = <<>>
  /\ best_license_plate_coords = <<>>
  /\ best_score = 0
  /\ results_dict = [vehicles |-> <<>>, plates |-> <<>>]

InitOcr ==
  InitOcrVars /\ IdleFrame /\ IdlePipe /\ IdleText /\ IdleRect /\ IdleCorner

\* the steps of the OCR threads
TaskNext ==
  \/ \E t \in tasks : TaskEntry(t)
  \/ \E t \in tasks : TaskMark(t)
  \/ \E t \in tasks : TaskOcr(t)
  \/ \E t \in tasks : TaskCheck(t)
  \/ \E t \in tasks : TaskPublish(t)
  \/ \E t \in tasks : TaskFinally(t)

NextOcr ==
  \/ Request
  \/ StopOcr
  \/ TaskNext

SpecOcr == InitOcr /\ [][NextOcr]_vars

\* requests of the runs in which the end of every task is checked
FairRequests == MaxRequests - 1

RequestFair ==
  /\ requested < FairRequests
  /\ Request

NextOcrFair ==
  \/ RequestFair
  \/ StopOcr
  \/ TaskNext

\* the OCR threads keep being scheduled and every OCR call returns
FairSpecOcr == InitOcr /\ [][NextOcrFair]_vars /\ WF_vars(TaskNext)

\* ------------------------------------------------ detection and association
\* a detection is <<x1, y1, x2, y2, score, class_id>>; scores are in tenths
vehicle_classes == {2, 3, 5, 7}
min_vehicle_score == 5          \* score > 0.5
plate_margin == 20

NoCoords == <<>>

\* the vehicle loop: class allow-list and score > 0.5, detector order kept
filter_vehicles(raw) ==
  SelectSeq(raw, LAMBDA d : d[6] \in vehicle_classes /\ d[5] > min_vehicle_score)

contains_with_margin_y1(lp, vehicle) ==
  /\ lp[1] >= vehicle[1] - plate_margin
  /\ lp[2] >= vehicle[2] - plate_margin
  /\ lp[3] <= vehicle[3] + plate_margin
  /\ lp[2] <= vehicle[4] + plate_margin

\* the containment test of the inner vehicle loop
contains_with_margin(lp, vehicle) ==
  /\ lp[1] >= vehicle[1] - plate_margin
  /\ lp[2] >= vehicle[2] - plate_margin
  /\ lp[3] <= vehicle[3] + plate_margin
  /\ lp[4] <= vehicle[4] + plate_margin

\* associated_vehicle is not None
has_associated_vehicle(lp, vehicles) ==
  \E k \in 1..Len(vehicles) : contains_with_margin(lp, vehicles[k])

is_better_or_equal(score_lp, best) == score_lp >= best

\* if score_lp > best_score
is_better(score_lp, best) == score_lp > best

\* the state of the plate loop before its first iteration
plate_loop_start == [plates |-> <<>>, best_score |-> 0, best_coords |-> NoCoords]

\* one iteration of the plate loop
plate_loop_body(lp, vehicles, acc) ==
  IF has_associated_vehicle(lp, vehicles)
  THEN [plates |-> Append(acc.plates, <<lp[1], lp[2], lp[3], lp[4], lp[5]>>),
        best_score |-> IF is_better(lp[5], acc.best_score) THEN lp[5]
                       ELSE acc.best_score,
        best_coords |-> IF is_better(lp[5], acc.best_score)
                        THEN <<lp[1], lp[2], lp[3], lp[4]>>
                        ELSE acc.best_coords]
  ELSE acc

RECURSIVE plate_loop(_, _, _, _)
plate_loop(raw, i, vehicles, acc) ==
  IF i > Len(raw) THEN acc
  ELSE plate_loop(raw, i + 1, vehicles, plate_loop_body(raw[i], vehicles, acc))

\* the detection part of one iteration of run(): the four locals
detect(vraw, praw) ==
  LET vehicles == IF show_vehicles \/ show_plates THEN filter_vehicles(vraw) ELSE <<>>
      loop == IF show_plates THEN plate_loop(praw, 1, vehicles, plate_loop_start)
              ELSE plate_loop_start
  IN [vehicles |-> vehicles, plates |-> loop.plates,
      best_score |-> loop.best_score, best_coords |-> loop.best_coords]

\* the two assignments made under the lock
published(vehicles, plates) ==
  [vehicles |-> IF show_vehicles THEN vehicles ELSE <<>>,
   plates |-> IF show_plates THEN plates ELSE <<>>]

\* ----- detector outputs of SpecAssoc
Vehicle1 == <<40, 40, 100, 100>>
Vehicle2 == <<200, 200, 260, 260>>

VehicleDetections ==
  { Vehicle1 \o <<6, 2>>,      \* a car above the threshold
    Vehicle1 \o <<5, 2>>,      \* a car at exactly 0.5
    Vehicle1 \o <<9, 0>>,      \* a person
    Vehicle2 \o <<9, 7>> }     \* a truck elsewhere

InsidePlateBoxes ==
  { <<20, 20, 120, 120>>,      \* exactly the expanded box of Vehicle1
    <<60, 60, 80, 80>> }       \* in the middle of Vehicle1

OutsidePlateBoxes ==
  { <<19, 60, 39, 80>>,        \* one pixel too far left
    <<60, 19, 80, 39>>,        \* one pixel too far up
    <<101, 60, 121, 80>>,      \* one pixel too far right
    <<60, 101, 80, 121>> }     \* one pixel too far down

PlateScores == {0, 4, 9}

PlateDetections ==
  {b \o <<sc, 0>> : b \in InsidePlateBoxes, sc \in PlateScores}
    \cup {b \o <<9, 0>> : b \in OutsidePlateBoxes}

SeqsUpTo(S, n) == UNION {[1..k -> S] : k \in 0..n}

ShowSwitches == {<<TRUE, FALSE>>, <<FALSE, TRUE>>, <<TRUE, TRUE>>}

IdleOcr ==
  /\ variant = "fast"
  /\ ocr_recognizer = TRUE
  /\ current_task = NoCrop
  /\ current_task_buffer = NoBuffer
  /\ latest_result = NoPlateDetected
  /\ processing = FALSE
  /\ ocr_stop_event = FALSE
  /\ tasks = {}
  /\ requested = 0
  /\ started = 0

InitAssoc ==
  /\ IdleOcr
  /\ IdlePipe
  /\ IdleText
  /\ IdleRect
  /\ IdleCorner
  /\ \E sw \in ShowSwitches : show_vehicles = sw[1] /\ show_plates = sw[2]
  /\ wpc = "detect"
  /\ vehicle_detections_raw \in SeqsUpTo(VehicleDetections, MaxVehicles)
  /\ license_plates_raw \in SeqsUpTo(PlateDetections, MaxPlates)
  /\ detected_vehicles = <<>>
  /\ detected_license_plates = <<>>
  /\ best_license_plate_coords = NoCoords
  /\ best_score = 0
  /\ results_dict = [vehicles |-> <<>>, plates |-> <<>>]

\* the detectors, the association and the best-plate choice of the frame
AssocDetect ==
  /\ wpc = "detect"
  /\ LET d == detect(vehicle_detections_raw, license_plates_raw)
     IN /\ detected_vehicles' = d.vehicles
        /\ detected_license_plates' = d.plates
        /\ best_score' = d.best_score
        /\ best_license_plate_coords' = d.best_coords
  /\ wpc' = "publish"
  /\ UNCHANGED <<stageVars, ocrVars, pipeVars, show_vehicles, show_plates,
                 vehicle_detections_raw, license_plates_raw, results_dict>>

\* with self.lock: the two lists of the frame are published
AssocPublish ==
  /\ wpc = "publish"
  /\ results_dict' = published(detected_vehicles, detected_license_plates)
  /\ wpc' = "published"
  /\ UNCHANGED <<stageVars, ocrVars, pipeVars, show_vehicles, show_plates,
                 vehicle_detections_raw, license_plates_raw, detected_vehicles,
                 detected_license_plates, best_license_plate_coords, best_score>>

NextAssoc ==
  \/ AssocDetect
  \/ AssocPublish

SpecAssoc == InitAssoc /\ [][NextAssoc]_vars

\* ------------------------------------------------- queue, lock, crop helpers
maxsize == 5

put_nowait_drop_oldest(q, item) ==
  IF Len(q) < maxsize THEN [queue |-> Append(q, item), full |-> FALSE]
  ELSE [queue |-> Append(Tail(q), item), full |-> FALSE]

\* Queue.put_nowait: the new queue, and whether queue.Full was raised
put_nowait(q, item) ==
  IF Len(q) < maxsize THEN [queue |-> Append(q, item), full |-> FALSE]
  ELSE [queue |-> q, full |-> TRUE]

get_newest(q) == [item |-> q[Len(q)], queue |-> SubSeq(q, 1, Len(q) - 1)]

\* Queue.get / get_nowait on a queue that is not empty: the oldest item
get(q) == [item |-> Head(q), queue |-> Tail(q)]

handler_empty_only(exc) == IF exc = "Empty" THEN "loop" ELSE "crashed"

\* the except clauses of run(): queue.Empty continues the loop, every other
\* Exception goes to the general clause
handler(exc) == IF exc = "Empty" THEN "loop" ELSE "except"

locked_never(l) == FALSE

\* threading.Lock: entering a with block waits while the lock is held
locked(l) == l # "free"

interval_due_after(n, interval) == n % interval = 1 % interval

\* self.frame_nmr_processed % self.ocr_processing_interval == 0
interval_due(n, interval) == n % interval = 0

can_raise_in_block(pc) == pc \in {"detect", "plate", "sync", "async", "write_plates"}

\* the statements of the try block that can raise: the detector calls, the
\* crop, the rectifier, the file writes, the OCR calls (the two assignments
\* under the lock cannot)
can_raise(pc) == pc \in {"detect", "plate", "sync", "async"}

get_nowait_peek(q) == [item |-> Head(q), queue |-> q]

\* Queue.get_nowait() on a queue that is not empty
get_nowait(q) == [item |-> Head(q), queue |-> Tail(q)]

drain_except_falls_through(exc) == "drain_done"

\* the except clause of the drain loop: queue.Empty breaks out of the loop,
\* before the task_done of this round
drain_except(exc) == IF exc = "Empty" THEN "sentinel" ELSE "drain_done"

empty_always(q) == TRUE

\* Queue.empty()
empty(q) == q = <<>>

release_forgotten(l) == l

\* leaving a with block
release(l) == "free"

exit_with_keeps(pc, l) == l

\* an exception leaves the try block of main: a with block that had been
\* entered releases its lock
exit_with(pc, l) == IF pc = "read" THEN "free" ELSE l

\* detection_worker.is_alive()
is_alive == wpc \notin {"done", "crashed"}

\* int() of the quotient n / d, d > 0
int_div(n, d) == IF n >= 0 THEN n \div d ELSE 0 - ((0 - n) \div d)

\* number of indices of a[lo:hi] on an axis of n elements
slice_len(lo, hi, n) ==
  LET norm(i) == IF i < 0 THEN (IF i + n < 0 THEN 0 ELSE i + n)
                 ELSE (IF i > n THEN n ELSE i)
  IN IF norm(hi) > norm(lo) THEN norm(hi) - norm(lo) ELSE 0

\* license_plate_crop_orig.size; the fast-plate script first widens the box
\* by the factor 1.1 around its centre and clips it to the frame
crop_size(c) ==
  IF variant = "fast"
  THEN LET lo(a, b) == IF 21 * a - b < 0 THEN 0 ELSE int_div(21 * a - b, 20)
           hi(a, b) == IF 21 * b - a > 20 * FrameSize THEN FrameSize
                       ELSE int_div(21 * b - a, 20)
       IN slice_len(lo(c[2], c[4]), hi(c[2], c[4]), FrameSize)
            * slice_len(lo(c[1], c[3]), hi(c[1], c[3]), FrameSize) * 3
  ELSE slice_len(c[2], c[4], FrameSize) * slice_len(c[1], c[3], FrameSize) * 3

\* detector outputs of the frames of Spec: nothing; a car with its plate;
\* a car with a plate box of no width
PipelineDetections ==
  { << <<>>, <<>> >>,
    << <<Vehicle1 \o <<6, 2>>>>, <<<<60, 60, 80, 80, 9, 0>>>> >>,
    << <<Vehicle1 \o <<6, 2>>>>, <<<<60, 60, 60, 80, 9, 0>>>> >> }

\* values of --ocr-interval
OcrIntervals == {0, 2}

\* the runs of the pipeline: script, whether the OCR model was loaded, the
\* display switches and --ocr-interval; every value of each occurs
Configurations ==
  { [variant |-> "fast", ocr_recognizer |-> TRUE,
     show |-> <<TRUE, TRUE>>, ocr_interval |-> 2],
    [variant |-> "fast", ocr_recognizer |-> FALSE,
     show |-> <<FALSE, TRUE>>, ocr_interval |-> 0],
    [variant |-> "simple", ocr_recognizer |-> TRUE,
     show |-> <<TRUE, TRUE>>, ocr_interval |-> 0],
    [variant |-> "simple", ocr_recognizer |-> TRUE,
     show |-> <<TRUE, FALSE>>, ocr_interval |-> 2] }

\* ------------------------------------------------------------ main thread
\* the display loop reads a frame and offers its copy to the queue
\* (put_nowait; queue.Full is passed over)
MainSubmit ==
  /\ mpc = "loop"
  /\ ~stop_event
  /\ frame_nmr_display < MaxFrames
  /\ frame_nmr_display' = frame_nmr_display + 1
  /\ LET put == put_nowait(detection_input_queue, frame_nmr_display + 1)
     IN /\ detection_input_queue' = put.queue
        /\ unfinished_tasks' = IF put.full THEN unfinished_tasks
                               ELSE unfinished_tasks + 1
        /\ enqueued' = IF put.full THEN enqueued
                       ELSE Append(enqueued, frame_nmr_display + 1)
        /\ dropped' = IF put.full THEN dropped \cup {frame_nmr_display + 1}
                      ELSE dropped
  /\ mpc' = "results"
  /\ UNCHANGED <<stageVars, variant, ocr_recognizer, current_task, latest_result,
                 processing, ocr_stop_event, tasks, requested, started,
                 show_vehicles, show_plates, wpc, vehicle_detections_raw,
                 license_plates_raw, detected_vehicles,
                 detected_license_plates, best_license_plate_coords,
                 best_score, results_dict, stop_event, lock, frame_data,
                 frame_nmr_processed, ocr_interval, ocr_processing_interval,
                 drained, processed, finished, raised>>

\* the user quits, the video ends, or the loop test finds the stop signal:
\* stop_event.set() and break
MainQuit ==
  /\ mpc = "loop"
  /\ stop_event' = TRUE
  /\ mpc' = "finally"
  /\ UNCHANGED <<stageVars, variant, ocr_recognizer, current_task, latest_result,
                 processing, ocr_stop_event, tasks, requested, started,
                 show_vehicles, show_plates, wpc, vehicle_detections_raw,
                 license_plates_raw, detected_vehicles,
                 detected_license_plates, best_license_plate_coords,
                 best_score, results_dict, detection_input_queue,
                 unfinished_tasks, lock, frame_nmr_display, frame_data,
                 frame_nmr_processed, ocr_interval, ocr_processing_interval,
                 enqueued, dropped, drained, processed, finished, raised>>

\* with results_lock: (entry)
MainAcquire ==
  /\ mpc = "results"
  /\ ~locked(lock)
  /\ lock' = "main"
  /\ mpc' = "read"
  /\ UNCHANGED <<stageVars, variant, ocr_recognizer, current_task, latest_result,
                 processing, ocr_stop_event, tasks, requested, started,
                 show_vehicles, show_plates, wpc, vehicle_detections_raw,
                 license_plates_raw, detected_vehicles,
                 detected_license_plates, best_license_plate_coords,
                 best_score, results_dict, stop_event, detection_input_queue,
                 unfinished_tasks, frame_nmr_display, frame_data,
                 frame_nmr_processed, ocr_interval, ocr_processing_interval,
                 enqueued, dropped, drained, processed, finished, raised>>

\* the two lists are read and drawn, the lock is released
MainRead ==
  /\ mpc = "read"
  /\ lock' = "free"
  /\ mpc' = "display"
  /\ UNCHANGED <<stageVars, variant, ocr_recognizer, current_task, latest_result,
                 processing, ocr_stop_event, tasks, requested, started,
                 show_vehicles, show_plates, wpc, vehicle_detections_raw,
                 license_plates_raw, detected_vehicles,
                 detected_license_plates, best_license_plate_coords,
                 best_score, results_dict, stop_event, detection_input_queue,
                 unfinished_tasks, frame_nmr_display, frame_data,
                 frame_nmr_processed, ocr_interval, ocr_processing_interval,
                 enqueued, dropped, drained, processed, finished, raised>>

\* get_latest_result() and the indicators are drawn; imshow
MainDisplay ==
  /\ mpc = "display"
  /\ mpc' = "loop"
  /\ UNCHANGED <<stageVars, variant, ocr_recognizer, current_task, latest_result,
                 processing, ocr_stop_event, tasks, requested, started,
                 show_vehicles, show_plates, wpc, vehicle_detections_raw,
                 license_plates_raw, detected_vehicles,
                 detected_license_plates, best_license_plate_coords,
                 best_score, results_dict, stop_event, detection_input_queue,
                 unfinished_tasks, lock, frame_nmr_display, frame_data,
                 frame_nmr_processed, ocr_interval, ocr_processing_interval,
                 enqueued, dropped, drained, processed, finished, raised>>

\* KeyboardInterrupt inside the try block (a with block releases the lock)
MainInterrupt ==
  /\ mpc \in {"loop", "results", "read", "display"}
  /\ lock' = exit_with(mpc, lock)
  /\ mpc' = "finally"
  /\ UNCHANGED <<stageVars, variant, ocr_recognizer, current_task, latest_result,
                 processing, ocr_stop_event, tasks, requested, started,
                 show_vehicles, show_plates, wpc, vehicle_detections_raw,
                 license_plates_raw, detected_vehicles,
                 detected_license_plates, best_license_plate_coords,
                 best_score, results_dict, stop_event, detection_input_queue,
                 unfinished_tasks, frame_nmr_display, frame_data,
                 frame_nmr_processed, ocr_interval, ocr_processing_interval,
                 enqueued, dropped, drained, processed, finished, raised>>

\* finally: stop_event.set()
MainFinally ==
  /\ mpc = "finally"
  /\ stop_event' = TRUE
  /\ mpc' = "ocr_stop"
  /\ UNCHANGED <<stageVars, variant, ocr_recognizer, current_task, latest_result,
                 processing, ocr_stop_event, tasks, requested, started,
                 show_vehicles, show_plates, wpc, vehicle_detections_raw,
                 license_plates_raw, detected_vehicles,
                 detected_license_plates, best_license_plate_coords,
                 best_score, results_dict, detection_input_queue,
                 unfinished_tasks, lock, frame_nmr_display, frame_data,
                 frame_nmr_processed, ocr_interval, ocr_processing_interval,
                 enqueued, dropped, drained, processed, finished, raised>>

\* ocr_worker.stop_event.set()
MainStopOcr ==
  /\ mpc = "ocr_stop"
  /\ ocr_stop_event' = TRUE
  /\ mpc' = "drain"
  /\ UNCHANGED <<stageVars, variant, ocr_recognizer, current_task, latest_result,
                 processing, tasks, requested, started, show_vehicles,
                 show_plates, wpc, vehicle_detections_raw,
                 license_plates_raw, detected_vehicles,
                 detected_license_plates, best_license_plate_coords,
                 best_score, results_dict, stop_event, detection_input_queue,
                 unfinished_tasks, lock, frame_nmr_display, frame_data,
                 frame_nmr_processed, ocr_interval, ocr_processing_interval,
                 enqueued, dropped, drained, processed, finished, raised>>

\* while not detection_input_queue.empty()
MainDrainTest ==
  /\ mpc = "drain"
  /\ mpc' = IF empty(detection_input_queue) THEN "sentinel" ELSE "drain_get"
  /\ UNCHANGED <<stageVars, variant, ocr_recognizer, current_task, latest_result,
                 processing, ocr_stop_event, tasks, requested, started,
                 show_vehicles, show_plates, wpc, vehicle_detections_raw,
                 license_plates_raw, detected_vehicles,
                 detected_license_plates, best_license_plate_coords,
                 best_score, results_dict, stop_event, detection_input_queue,
                 unfinished_tasks, lock, frame_nmr_display, frame_data,
                 frame_nmr_processed, ocr_interval, ocr_processing_interval,
                 enqueued, dropped, drained, processed, finished, raised>>

\* detection_input_queue.get_nowait()
MainDrainGet ==
  /\ mpc = "drain_get"
  /\ IF detection_input_queue = <<>>
     THEN /\ mpc' = drain_except("Empty")
          /\ UNCHANGED <<detection_input_queue, drained>>
     ELSE /\ detection_input_queue' = get_nowait(detection_input_queue).queue
          /\ drained' = drained \cup {get_nowait(detection_input_queue).item}
          /\ mpc' = "drain_done"
  /\ UNCHANGED <<stageVars, variant, ocr_recognizer, current_task, latest_result,
                 processing, ocr_stop_event, tasks, requested, started,
                 show_vehicles, show_plates, wpc, vehicle_detections_raw,
                 license_plates_raw, detected_vehicles,
                 detected_license_plates, best_license_plate_coords,
                 best_score, results_dict, stop_event, unfinished_tasks,
                 lock, frame_nmr_display, frame_data, frame_nmr_processed,
                 ocr_interval, ocr_processing_interval, enqueued, dropped,
                 processed, finished, raised>>

\* detection_input_queue.task_done() of the cleanup
MainDrainTaskDone ==
  /\ mpc = "drain_done"
  /\ unfinished_tasks' = unfinished_tasks - 1
  /\ mpc' = "drain"
  /\ UNCHANGED <<stageVars, variant, ocr_recognizer, current_task, latest_result,
                 processing, ocr_stop_event, tasks, requested, started,
                 show_vehicles, show_plates, wpc, vehicle_detections_raw,
                 license_plates_raw, detected_vehicles,
                 detected_license_plates, best_license_plate_coords,
                 best_score, results_dict, stop_event, detection_input_queue,
                 lock, frame_nmr_display, frame_data, frame_nmr_processed,
                 ocr_interval, ocr_processing_interval, enqueued, dropped,
                 drained, processed, finished, raised>>

\* if detection_worker.is_alive(): put_nowait(None), queue.Full passed over
MainSentinel ==
  /\ mpc = "sentinel"
  /\ IF is_alive
     THEN LET put == put_nowait(detection_input_queue, QueueNone)
          IN /\ detection_input_queue' = put.queue
             /\ unfinished_tasks' = IF put.full THEN unfinished_tasks
                                    ELSE unfinished_tasks + 1
     ELSE UNCHANGED <<detection_input_queue, unfinished_tasks>>
  /\ mpc' = "join"
  /\ UNCHANGED <<stageVars, variant, ocr_recognizer, current_task, latest_result,
                 processing, ocr_stop_event, tasks, requested, started,
                 show_vehicles, show_plates, wpc, vehicle_detections_raw,
                 license_plates_raw, detected_vehicles,
                 detected_license_plates, best_license_plate_coords,
                 best_score, results_dict, stop_event, lock,
                 frame_nmr_display, frame_data, frame_nmr_processed,
                 ocr_interval, ocr_processing_interval, enqueued, dropped,
                 drained, processed, finished, raised>>

\* join(timeout=5.0): the worker has finished or the timeout has passed
\* (a worker still running keeps being scheduled)
MainJoin ==
  /\ mpc = "join"
  /\ mpc' = "exit"
  /\ UNCHANGED <<stageVars, variant, ocr_recognizer, current_task, latest_result,
                 processing, ocr_stop_event, tasks, requested, started,
                 show_vehicles, show_plates, wpc, vehicle_detections_raw,
                 license_plates_raw, detected_vehicles,
                 detected_license_plates, best_license_plate_coords,
                 best_score, results_dict, stop_event, detection_input_queue,
                 unfinished_tasks, lock, frame_nmr_display, frame_data,
                 frame_nmr_processed, ocr_interval, ocr_processing_interval,
                 enqueued, dropped, drained, processed, finished, raised>>

\* while not self.stop_event.is_set()
WorkerLoop ==
  /\ wpc = "loop"
  /\ wpc' = IF stop_event THEN "done" ELSE "get"
  /\ UNCHANGED <<stageVars, variant, ocr_recognizer, current_task, latest_result,
                 processing, ocr_stop_event, tasks, requested, started,
                 show_vehicles, show_plates, vehicle_detections_raw,
                 license_plates_raw, detected_vehicles,
                 detected_license_plates, best_license_plate_coords,
                 best_score, results_dict, stop_event, detection_input_queue,
                 unfinished_tasks, lock, mpc, frame_nmr_display, frame_data,
                 frame_nmr_processed, ocr_interval, ocr_processing_interval,
                 enqueued, dropped, drained, processed, finished, raised>>

\* frame_data = self.input_queue.get(timeout=0.1) returns an item; None
\* breaks, a frame is counted and its locals start empty
WorkerGet ==
  /\ wpc = "get"
  /\ detection_input_queue # <<>>
  /\ LET got == get(detection_input_queue)
     IN /\ detection_input_queue' = got.queue
        /\ frame_data' = got.item
        /\ IF got.item = QueueNone
           THEN /\ wpc' = "done"
                /\ UNCHANGED <<frame_nmr_processed, processed>>
           ELSE /\ wpc' = "detect"
                /\ frame_nmr_processed' = frame_nmr_processed + 1
                /\ processed' = Append(processed, got.item)
  /\ vehicle_detections_raw' = <<>>
  /\ license_plates_raw' = <<>>
  /\ detected_vehicles' = <<>>
  /\ detected_license_plates' = <<>>
  /\ best_license_plate_coords' = NoCoords
  /\ best_score' = 0
  /\ UNCHANGED <<stageVars, variant, ocr_recognizer, current_task, latest_result,
                 processing, ocr_stop_event, tasks, requested, started,
                 show_vehicles, show_plates, results_dict, stop_event,
                 unfinished_tasks, lock, mpc, frame_nmr_display,
                 ocr_interval, ocr_processing_interval, enqueued, dropped,
                 drained, finished, raised>>

\* the timed get finds nothing: queue.Empty, continue
WorkerGetTimeout ==
  /\ wpc = "get"
  /\ detection_input_queue = <<>>
  /\ wpc' = handler("Empty")
  /\ UNCHANGED <<stageVars, variant, ocr_recognizer, current_task, latest_result,
                 processing, ocr_stop_event, tasks, requested, started,
                 show_vehicles, show_plates, vehicle_detections_raw,
                 license_plates_raw, detected_vehicles,
                 detected_license_plates, best_license_plate_coords,
                 best_score, results_dict, stop_event, detection_input_queue,
                 unfinished_tasks, lock, mpc, frame_nmr_display, frame_data,
                 frame_nmr_processed, ocr_interval, ocr_processing_interval,
                 enqueued, dropped, drained, processed, finished, raised>>

\* both detectors run on the frame; association and best plate
WorkerDetect ==
  /\ wpc = "detect"
  /\ \E out \in PipelineDetections :
       LET d == detect(out[1], out[2])
       IN /\ vehicle_detections_raw' = out[1]
          /\ license_plates_raw' = out[2]
          /\ detected_vehicles' = d.vehicles
          /\ detected_license_plates' = d.plates
          /\ best_score' = d.best_score
          /\ best_license_plate_coords' = d.best_coords
          /\ wpc' = IF d.best_coords # NoCoords THEN "plate" ELSE "acquire"
  /\ UNCHANGED <<stageVars, variant, ocr_recognizer, current_task, latest_result,
                 processing, ocr_stop_event, tasks, requested, started,
                 show_vehicles, show_plates, results_dict, stop_event,
                 detection_input_queue, unfinished_tasks, lock, mpc,
                 frame_nmr_display, frame_data, frame_nmr_processed,
                 ocr_interval, ocr_processing_interval, enqueued, dropped,
                 drained, processed, finished, raised>>

\* the crop of the best plate; if it is not empty, the rectifier
WorkerPlate ==
  /\ wpc = "plate"
  /\ wpc' = IF crop_size(best_license_plate_coords) > 0 THEN "sync" ELSE "acquire"
  /\ UNCHANGED <<stageVars, variant, ocr_recognizer, current_task, latest_result,
                 processing, ocr_stop_event, tasks, requested, started,
                 show_vehicles, show_plates, vehicle_detections_raw,
                 license_plates_raw, detected_vehicles,
                 detected_license_plates, best_license_plate_coords,
                 best_score, results_dict, stop_event, detection_input_queue,
                 unfinished_tasks, lock, mpc, frame_nmr_display, frame_data,
                 frame_nmr_processed, ocr_interval, ocr_processing_interval,
                 enqueued, dropped, drained, processed, finished, raised>>

\* process_synchronous_ocr, the annotated image is saved, and the test of
\* the OCR interval
WorkerSync ==
  /\ wpc = "sync"
  /\ wpc' = IF interval_due(frame_nmr_processed, ocr_processing_interval)
            THEN "async" ELSE "acquire"
  /\ UNCHANGED <<stageVars, variant, ocr_recognizer, current_task, latest_result,
                 processing, ocr_stop_event, tasks, requested, started,
                 show_vehicles, show_plates, vehicle_detections_raw,
                 license_plates_raw, detected_vehicles,
                 detected_license_plates, best_license_plate_coords,
                 best_score, results_dict, stop_event, detection_input_queue,
                 unfinished_tasks, lock, mpc, frame_nmr_display, frame_data,
                 frame_nmr_processed, ocr_interval, ocr_processing_interval,
                 enqueued, dropped, drained, processed, finished, raised>>

\* self.ocr_worker.process_latest(crop.copy())
WorkerAsync ==
  /\ wpc = "async"
  /\ requested' = requested + 1
  /\ process_latest(copy(worker_buffer(frame_data), "call"))
  /\ wpc' = "acquire"
  /\ UNCHANGED <<textVars, rectVars, cornerVars, variant, ocr_recognizer, latest_result, processing,
                 ocr_stop_event, show_vehicles, show_plates,
                 vehicle_detections_raw, license_plates_raw,
                 detected_vehicles, detected_license_plates,
                 best_license_plate_coords, best_score, results_dict,
                 stop_event, detection_input_queue, unfinished_tasks, lock,
                 mpc, frame_nmr_display, frame_data, frame_nmr_processed,
                 ocr_interval, ocr_processing_interval, enqueued, dropped,
                 drained, processed, finished, raised>>

\* a detector, the rectifier, the OCR or the file system raises
WorkerRaise ==
  /\ can_raise(wpc)
  /\ Cardinality(raised) < MaxRaise
  /\ raised' = raised \cup {frame_data}
  /\ wpc' = handler("Exception")
  /\ UNCHANGED <<stageVars, variant, ocr_recognizer, current_task, latest_result,
                 processing, ocr_stop_event, tasks, requested, started,
                 show_vehicles, show_plates, vehicle_detections_raw,
                 license_plates_raw, detected_vehicles,
                 detected_license_plates, best_license_plate_coords,
                 best_score, results_dict, stop_event, detection_input_queue,
                 unfinished_tasks, lock, mpc, frame_nmr_display, frame_data,
                 frame_nmr_processed, ocr_interval, ocr_processing_interval,
                 enqueued, dropped, drained, processed, finished>>

\* with self.lock: (entry)
WorkerAcquire ==
  /\ wpc = "acquire"
  /\ ~locked(lock)
  /\ lock' = "worker"
  /\ wpc' = "write_vehicles"
  /\ UNCHANGED <<stageVars, variant, ocr_recognizer, current_task, latest_result,
                 processing, ocr_stop_event, tasks, requested, started,
                 show_vehicles, show_plates, vehicle_detections_raw,
                 license_plates_raw, detected_vehicles,
                 detected_license_plates, best_license_plate_coords,
                 best_score, results_dict, stop_event, detection_input_queue,
                 unfinished_tasks, mpc, frame_nmr_display, frame_data,
                 frame_nmr_processed, ocr_interval, ocr_processing_interval,
                 enqueued, dropped, drained, processed, finished, raised>>

\* self.results_dict['vehicles'] = ...
WorkerWriteVehicles ==
  /\ wpc = "write_vehicles"
  /\ results_dict' = [results_dict EXCEPT
                        !.vehicles = published(detected_vehicles,
                                               detected_license_plates).vehicles]
  /\ wpc' = "write_plates"
  /\ UNCHANGED <<stageVars, variant, ocr_recognizer, current_task, latest_result,
                 processing, ocr_stop_event, tasks, requested, started,
                 show_vehicles, show_plates, vehicle_detections_raw,
                 license_plates_raw, detected_vehicles,
                 detected_license_plates, best_license_plate_coords,
                 best_score, stop_event, detection_input_queue,
                 unfinished_tasks, lock, mpc, frame_nmr_display, frame_data,
                 frame_nmr_processed, ocr_interval, ocr_processing_interval,
                 enqueued, dropped, drained, processed, finished, raised>>

\* self.results_dict['plates'] = ... and the end of the with block
WorkerWritePlates ==
  /\ wpc = "write_plates"
  /\ results_dict' = [results_dict EXCEPT
                        !.plates = published(detected_vehicles,
                                             detected_license_plates).plates]
  /\ lock' = release(lock)
  /\ wpc' = "task_done"
  /\ UNCHANGED <<stageVars, variant, ocr_recognizer, current_task, latest_result,
                 processing, ocr_stop_event, tasks, requested, started,
                 show_vehicles, show_plates, vehicle_detections_raw,
                 license_plates_raw, detected_vehicles,
                 detected_license_plates, best_license_plate_coords,
                 best_score, stop_event, detection_input_queue,
                 unfinished_tasks, mpc, frame_nmr_display, frame_data,
                 frame_nmr_processed, ocr_interval, ocr_processing_interval,
                 enqueued, dropped, drained, processed, finished, raised>>

\* self.input_queue.task_done() at the end of the try block
WorkerTaskDone ==
  /\ wpc = "task_done"
  /\ IF unfinished_tasks > 0
     THEN /\ unfinished_tasks' = unfinished_tasks - 1
          /\ finished' = finished \cup {frame_data}
          /\ wpc' = "loop"
     ELSE /\ wpc' = handler("ValueError")
          /\ UNCHANGED <<unfinished_tasks, finished>>
  /\ UNCHANGED <<stageVars, variant, ocr_recognizer, current_task, latest_result,
                 processing, ocr_stop_event, tasks, requested, started,
                 show_vehicles, show_plates, vehicle_detections_raw,
                 license_plates_raw, detected_vehicles,
                 detected_license_plates, best_license_plate_coords,
                 best_score, results_dict, stop_event, detection_input_queue,
                 lock, mpc, frame_nmr_display, frame_data,
                 frame_nmr_processed, ocr_interval, ocr_processing_interval,
                 enqueued, dropped, drained, processed, raised>>

\* except Exception: the message and self.input_queue.task_done()
WorkerExcept ==
  /\ wpc = "except"
  /\ IF unfinished_tasks > 0
     THEN /\ unfinished_tasks' = unfinished_tasks - 1
          /\ finished' = finished \cup {frame_data}
          /\ wpc' = "loop"
     ELSE /\ wpc' = "crashed"          \* ValueError leaves run()
          /\ UNCHANGED <<unfinished_tasks, finished>>
  /\ UNCHANGED <<stageVars, variant, ocr_recognizer, current_task, latest_result,
                 processing, ocr_stop_event, tasks, requested, started,
                 show_vehicles, show_plates, vehicle_detections_raw,
                 license_plates_raw, detected_vehicles,
                 detected_license_plates, best_license_plate_coords,
                 best_score, results_dict, stop_event, detection_input_queue,
                 lock, mpc, frame_nmr_display, frame_data,
                 frame_nmr_processed, ocr_interval, ocr_processing_interval,
                 enqueued, dropped, drained, processed, raised>>

Init ==
  /\ InitOcrVars
  /\ IdleText
  /\ IdleRect
  /\ IdleCorner
  /\ \E sw \in ShowSwitches : show_vehicles = sw[1] /\ show_plates = sw[2]
  /\ wpc = "loop"
  /\ vehicle_detections_raw = <<>>
  /\ license_plates_raw = <<>>
  /\ detected_vehicles = <<>>
  /\ detected_license_plates = <<>>
  /\ best_license_plate_coords = NoCoords
  /\ best_score = 0
  /\ results_dict = [vehicles |-> <<>>, plates |-> <<>>]
  /\ stop_event = FALSE
  /\ detection_input_queue = <<>>
  /\ unfinished_tasks = 0
  /\ lock = "free"
  /\ mpc = "loop"
  /\ frame_nmr_display = 0
  /\ frame_data = QueueNone
  /\ frame_nmr_processed = 0
  /\ ocr_interval \in OcrIntervals
  /\ ocr_processing_interval = effective_interval(ocr_interval)
  /\ enqueued = <<>>
  /\ dropped = {}
  /\ drained = {}
  /\ processed = <<>>
  /\ finished = {}
  /\ raised = {}
  /\ [variant |-> variant, ocr_recognizer |-> ocr_recognizer,
      show |-> <<show_vehicles, show_plates>>,
      ocr_interval |-> ocr_interval] \in Configurations

MainNext ==
  \/ MainSubmit
  \/ MainQuit
  \/ MainAcquire
  \/ MainRead
  \/ MainDisplay
  \/ MainInterrupt
  \/ MainFinally
  \/ MainStopOcr
  \/ MainDrainTest
  \/ MainDrainGet
  \/ MainDrainTaskDone
  \/ MainSentinel
  \/ MainJoin

WorkerNext ==
  \/ WorkerLoop
  \/ WorkerGet
  \/ WorkerGetTimeout
  \/ WorkerDetect
  \/ WorkerPlate
  \/ WorkerSync
  \/ WorkerAsync
  \/ WorkerRaise
  \/ WorkerAcquire
  \/ WorkerWriteVehicles
  \/ WorkerWritePlates
  \/ WorkerTaskDone
  \/ WorkerExcept

Next == MainNext \/ WorkerNext

Spec == Init /\ [][Next]_vars

\* one configuration of the run: the scripts differ in the pipeline only by
\* the crop arithmetic, and the switches only select what is published
FairInit ==
  /\ Init
  /\ variant = "fast"
  /\ ocr_recognizer
  /\ show_vehicles
  /\ show_plates
  /\ ocr_interval = 2

\* both threads keep being scheduled
FairSpec == FairInit /\ [][Next]_vars /\ WF_vars(MainNext) /\ WF_vars(WorkerNext)

\* ---------------------------------------------------------- validator stage
DigitSeq == <<"1", "2", "3", "4", "5", "6", "7", "8", "9", "0">>

\* the text "1234567890123..." cut to n digits
DigitRun(n) == [i \in 1..n |-> DigitSeq[((i - 1) % 10) + 1]]

\* the text d with the character c put in after each position of P
RECURSIVE with_separators(_, _, _, _)
with_separators(d, i, P, c) ==
  IF i > Len(d) THEN <<>>
  ELSE <<d[i]>> \o (IF i \in P THEN <<c>> ELSE <<>>)
         \o with_separators(d, i + 1, P, c)

SeparatorChars == {"-", " ", "\\", "."}

SeparatorPlaces(n) == {P \in SUBSET (1..(n - 1)) : Cardinality(P) <= 2}

\* digit runs with up to two separators anywhere
SeparatedTexts ==
  UNION { {with_separators(DigitRun(n), 1, P, c) :
             P \in SeparatorPlaces(n), c \in SeparatorChars} :
          n \in 0..MaxDigits }

\* a confusable capital, a confusable small letter, a letter that is not one
MisreadLetters == {"O", "s", "x"}

\* digit runs in which the engine read one position as a letter, bare and in
\* the three dashed layouts
MisreadTexts ==
  UNION { {with_separators([DigitRun(n) EXCEPT ![k] = l], 1, P, "-") :
             k \in 1..n, l \in MisreadLetters,
             P \in {{}, {2, 5}, {1, 5}, {3, 5}}} :
          n \in 1..MaxDigits }

\* digit runs with the padding of the fast-plate engine and white space
PaddedTexts ==
  UNION { { DigitRun(n) \o <<"_", "_">>,
            <<" ">> \o DigitRun(n) \o <<"\n">>,
            <<"_">> \o with_separators(DigitRun(n), 1, {2, 5}, "-") \o <<"_">> } :
          n \in 0..MaxDigits }

PunctuationTexts ==
  { <<"#">>, <<"-", "-", "-">>, <<".", ",", "!", "?">>, <<" ", "-", " ">> }

\* texts of GarbageLen characters: some digits, then one repeated character
GarbageTexts ==
  { DigitRun(k) \o [i \in 1..(GarbageLen - k) |-> c] :
      k \in 0..MaxDigits, c \in {"#", "x", "O", "-"} }

\* the texts an OCR engine hands to the validator
OcrRawTexts ==
  SeparatedTexts \cup MisreadTexts \cup PaddedTexts \cup PunctuationTexts
    \cup GarbageTexts

InitText ==
  /\ variant \in {"fast", "simple"}
  /\ ocr_recognizer = TRUE
  /\ current_task = NoCrop
  /\ current_task_buffer = NoBuffer
  /\ latest_result = NoPlateDetected
  /\ processing = FALSE
  /\ ocr_stop_event = FALSE
  /\ tasks = {}
  /\ requested = 0
  /\ started = 0
  /\ IdleFrame
  /\ IdlePipe
  /\ IdleRect
  /\ IdleCorner
  /\ ocr_raw_text \in OcrRawTexts
  /\ formatted = None
  /\ tpc = "input"

\* python_yolo_fast_plate.py: formatted_text = self._validate_and_format_plate(raw_text)
FastValidate ==
  /\ tpc = "input"
  /\ variant = "fast"
  /\ formatted' = fast_validate_and_format_plate(ocr_raw_text)
  /\ tpc' = "validated"
  /\ UNCHANGED <<ocrVars, frameVars, pipeVars, rectVars, cornerVars, bufferVars,
                 ocr_raw_text>>

\* python_yolo.py: character map, digits, _validate_and_format_plate_by_rules
SimpleRead ==
  /\ tpc = "input"
  /\ variant = "simple"
  /\ formatted' = simple_read_license_plate(ocr_raw_text)
  /\ tpc' = "validated"
  /\ UNCHANGED <<ocrVars, frameVars, pipeVars, rectVars, cornerVars, bufferVars,
                 ocr_raw_text>>

NextText ==
  \/ FastValidate
  \/ SimpleRead

SpecText == InitText /\ [][NextText]_vars

\* ---------------------------------------------------------- rectifier stage
\* An image is its width, its height and the name of its pixel content; a
\* point is <<x, y>>; a contour is the polygon approxPolyDP made of it.

\* plate_crop_bgr.size == 0
is_empty(img) == img.w * img.h = 0

\* int(np.sqrt(n)) for n >= 0
isqrt(n) == CHOOSE k \in 0..(2 * FrameSize) : k * k <= n /\ n < (k + 1) * (k + 1)

\* int() of the distance of two points
int_norm(p, q) ==
  isqrt((p[1] - q[1]) * (p[1] - q[1]) + (p[2] - q[2]) * (p[2] - q[2]))

max(a, b) == IF a >= b THEN a ELSE b
min(a, b) == IF a <= b THEN a ELSE b

\* twice cv2.contourArea of a polygon (shoelace sum)
RECURSIVE shoelace(_, _)
shoelace(pts, i) ==
  IF i > Len(pts) THEN 0
  ELSE LET q == pts[(i % Len(pts)) + 1]
       IN pts[i][1] * q[2] - q[1] * pts[i][2] + shoelace(pts, i + 1)

contour_area_2(pts) ==
  LET t == shoelace(pts, 1) IN IF t < 0 THEN 0 - t ELSE t

\* np.argmin / np.argmax: the first index of the least / greatest value
argmin(f) ==
  CHOOSE i \in DOMAIN f :
    /\ \A j \in DOMAIN f : f[i] <= f[j]
    /\ \A j \in DOMAIN f : j < i => f[j] > f[i]

argmax(f) ==
  CHOOSE i \in DOMAIN f :
    /\ \A j \in DOMAIN f : f[i] >= f[j]
    /\ \A j \in DOMAIN f : j < i => f[j] < f[i]

order_points_x_minus_y(pts) ==
  LET sum == [i \in 1..4 |-> pts[i][1] + pts[i][2]]
      diff == [i \in 1..4 |-> pts[i][1] - pts[i][2]]
  IN <<pts[argmin(sum)], pts[argmin(diff)], pts[argmax(sum)], pts[argmax(diff)]>>

\* _order_points: top-left, top-right, bottom-right, bottom-left
order_points(pts) ==
  LET sum == [i \in 1..4 |-> pts[i][1] + pts[i][2]]
      diff == [i \in 1..4 |-> pts[i][2] - pts[i][1]]
  IN <<pts[argmin(sum)], pts[argmin(diff)], pts[argmax(sum)], pts[argmax(diff)]>>

\* width and height of the bird's-eye view of an ordered quadrilateral
max_width(rect) == max(int_norm(rect[3], rect[4]), int_norm(rect[2], rect[1]))
max_height(rect) == max(int_norm(rect[2], rect[3]), int_norm(rect[1], rect[4]))

\* cv2.warpPerspective(img, matrix, (w, h))
warpPerspective(img, w, h) == [w |-> w, h |-> h, pixels |-> "warped"]

\* the test of the contour loop of _correct_plate_perspective:
\* four corners and more than 10% of the crop's area
simple_qualifies(approx, img) ==
  /\ Len(approx) = 4
  /\ 5 * contour_area_2(approx) > img.w * img.h

\* SimpleOCRWorker._correct_plate_perspective; cnts are the approximated
\* contours, largest first
correct_plate_perspective(img, cnts) ==
  IF is_empty(img) THEN img
  ELSE LET found == {i \in 1..Len(cnts) : i <= 10 /\ simple_qualifies(cnts[i], img)}
       IN IF found = {} THEN img
          ELSE LET screen_cnt == cnts[CHOOSE i \in found : \A j \in found : i <= j]
                   rect == order_points(screen_cnt)
                   warped == warpPerspective(img, max_width(rect), max_height(rect))
               IN IF max_width(rect) = 0 THEN img
                  ELSE IF max_height(rect) = 0 THEN img
                  ELSE IF warped.h < 20 \/ warped.w < 50 THEN img
                  ELSE warped

\* cv2.boundingRect of a polygon with integer corners
boundingRect(pts) ==
  LET xs == {pts[i][1] : i \in 1..Len(pts)}
      ys == {pts[i][2] : i \in 1..Len(pts)}
      lo(S) == CHOOSE a \in S : \A b \in S : a <= b
      hi(S) == CHOOSE a \in S : \A b \in S : a >= b
  IN [x |-> lo(xs), y |-> lo(ys), w |-> hi(xs) - lo(xs) + 1, h |-> hi(ys) - lo(ys) + 1]

\* strategy 1: the tests a four-cornered contour has to pass
\* (2.0 < aspect < 6.0, fill_ratio > 0.6, w > 0.5 * w_img, h > 0.2 * h_img)
fast_qualifies(approx, img) ==
  /\ Len(approx) = 4
  /\ LET b == boundingRect(approx)
     IN /\ 2 * b.h < b.w
        /\ b.w < 6 * b.h
        /\ 5 * contour_area_2(approx) > 6 * b.w * b.h
        /\ 2 * b.w > img.w
        /\ 5 * b.h > img.h

\* score = fill_ratio * area of one contour is greater than that of another
\* (the products are kept as <<thousands, rest>> so that they stay in range)
score_greater(a, b) ==
  LET product(x, y) == <<(x \div 1000) * y + ((x % 1000) * y) \div 1000,
                         ((x % 1000) * y) % 1000>>
      l == product(contour_area_2(a) * contour_area_2(a),
                   boundingRect(b).w * boundingRect(b).h)
      r == product(contour_area_2(b) * contour_area_2(b),
                   boundingRect(a).w * boundingRect(a).h)
  IN l[1] > r[1] \/ (l[1] = r[1] /\ l[2] > r[2])

\* strategy 1: the loop over the contours; best is the index of best_rect,
\* 0 while best_rect is None
RECURSIVE border_loop(_, _, _, _)
border_loop(cnts, i, img, best) ==
  IF i > Len(cnts) THEN best
  ELSE border_loop(cnts, i + 1, img,
         IF fast_qualifies(cnts[i], img)
              /\ (IF best = 0 THEN contour_area_2(cnts[i]) > 0
                  ELSE score_greater(cnts[i], cnts[best]))
         THEN i ELSE best)

NoRect == <<>>

\* the four corners of an axis-parallel region
corners(x1, y1, x2, y2) == <<<<x1, y1>>, <<x2, y1>>, <<x2, y2>>, <<x1, y2>>>>

\* strategy 2: the padded bounding box of the text regions, if it looks
\* like a plate; boxes are <<x1, y1, x2, y2>>
text_region(boxes, img) ==
  IF boxes = <<>> THEN NoRect
  ELSE LET lo(k) == CHOOSE a \in {boxes[i][k] : i \in 1..Len(boxes)} :
                      \A i \in 1..Len(boxes) : a <= boxes[i][k]
           hi(k) == CHOOSE a \in {boxes[i][k] : i \in 1..Len(boxes)} :
                      \A i \in 1..Len(boxes) : a >= boxes[i][k]
           text_width == hi(3) - lo(1)
           text_height == hi(4) - lo(2)
           padding_x == max((text_width * 2) \div 10, 10)
           padding_y == max((text_height * 4) \div 10, 8)
           min_x == max(0, lo(1) - padding_x)
           min_y == max(0, lo(2) - padding_y)
           max_x == min(img.w, hi(3) + padding_x)
           max_y == min(img.h, hi(4) + padding_y)
           detected_width == max_x - min_x
           detected_height == max_y - min_y
       IN IF /\ detected_height > 0
             /\ 18 * detected_height < 10 * detected_width
             /\ detected_width < 6 * detected_height
             /\ 10 * detected_width > 4 * img.w
             /\ 5 * detected_height > img.h
          THEN corners(min_x, min_y, max_x, max_y)
          ELSE NoRect

\* strategy 3: the central portion of the crop
central_region(img) ==
  LET margin_x == img.w \div 10
      margin_y == (img.h * 2) \div 10
  IN corners(margin_x, margin_y, img.w - margin_x, img.h - margin_y)

\* the enhance step: same size, new pixels
enhanced(img) == [w |-> img.w, h |-> img.h, pixels |-> "enhanced"]

\* FastPlateOCRWorker._auto_correct_plate_perspective_and_enhance; cnts are
\* the approximated external contours, boxes the text regions found
auto_correct_plate_perspective_and_enhance(img, correct_perspective, enhance, cnts, boxes) ==
  IF is_empty(img) THEN img
  ELSE LET border == border_loop(cnts, 1, img, 0)
           region == IF border # 0 THEN cnts[border] ELSE text_region(boxes, img)
           best_rect == IF region # NoRect THEN region ELSE central_region(img)
           rect == order_points(best_rect)
           result == IF correct_perspective
                        /\ max_width(rect) >= 30 /\ max_height(rect) >= 10
                     THEN warpPerspective(img, max_width(rect), max_height(rect))
                     ELSE img
       IN IF enhance THEN enhanced(result) ELSE result

\* ----- crops, contours and text regions of SpecRect
CropSizes == {<<0, 0>>, <<0, 40>>, <<120, 0>>, <<30, 10>>, <<60, 20>>, <<120, 40>>}

Crops == {[w |-> c[1], h |-> c[2], pixels |-> "crop"] : c \in CropSizes}

Polygons ==
  { <<<<10, 5>>, <<100, 5>>, <<50, 35>>>>,                \* a triangle
    <<<<5, 5>>, <<110, 8>>, <<112, 36>>, <<4, 33>>>>,     \* a skewed plate border
    <<<<10, 10>>, <<30, 10>>, <<30, 18>>, <<10, 18>>>>,   \* a small quadrilateral
    <<<<40, 2>>, <<80, 2>>, <<80, 38>>, <<40, 38>>>>,     \* a tall quadrilateral
    <<<<2, 2>>, <<58, 2>>, <<58, 18>>, <<2, 18>>>> }      \* a low plate border

TextBoxLists ==
  { <<>>,
    <<<<20, 10, 35, 30>>, <<40, 10, 55, 30>>, <<60, 10, 75, 30>>>>,  \* three characters
    <<<<50, 15, 60, 25>>>> }                                        \* one blob

\* every corner lies in the image
fits(pts, img) ==
  \A i \in 1..Len(pts) :
    pts[i][1] \in 0..img.w /\ pts[i][2] \in 0..img.h

InitRect ==
  /\ variant \in {"fast", "simple"}
  /\ ocr_recognizer = TRUE
  /\ current_task = NoCrop
  /\ current_task_buffer = NoBuffer
  /\ latest_result = NoPlateDetected
  /\ processing = FALSE
  /\ ocr_stop_event = FALSE
  /\ tasks = {}
  /\ requested = 0
  /\ started = 0
  /\ IdleFrame
  /\ IdlePipe
  /\ IdleText
  /\ IdleCorner
  /\ plate_crop_bgr \in Crops
  /\ contours \in SeqsUpTo(Polygons, MaxContours)
  /\ \A i \in 1..Len(contours) : fits(contours[i], plate_crop_bgr)
  /\ text_boxes \in TextBoxLists
  /\ variant = "simple" => text_boxes = <<>>
  /\ \A i \in 1..Len(text_boxes) :
       fits(<<<<text_boxes[i][1], text_boxes[i][2]>>,
              <<text_boxes[i][3], text_boxes[i][4]>>>>, plate_crop_bgr)
  /\ rectified = NoImage
  /\ rpc = "input"

\* python_yolo.py: self.ocr_worker._correct_plate_perspective(crop)
SimpleRectify ==
  /\ rpc = "input"
  /\ variant = "simple"
  /\ rectified' = correct_plate_perspective(plate_crop_bgr, contours)
  /\ rpc' = "rectified"
  /\ UNCHANGED <<ocrVars, frameVars, pipeVars, textVars, cornerVars, bufferVars,
                 plate_crop_bgr,
                 contours, text_boxes>>

\* python_yolo_fast_plate.py: _auto_correct_plate_perspective_and_enhance(
\* crop, correct_perspective=True, enhance=False, ...)
FastRectify ==
  /\ rpc = "input"
  /\ variant = "fast"
  /\ rectified' = auto_correct_plate_perspective_and_enhance(
                    plate_crop_bgr, TRUE, FALSE, contours, text_boxes)
  /\ rpc' = "rectified"
  /\ UNCHANGED <<ocrVars, frameVars, pipeVars, textVars, cornerVars, bufferVars,
                 plate_crop_bgr,
                 contours, text_boxes>>

NextRect ==
  \/ SimpleRectify
  \/ FastRectify

SpecRect == InitRect /\ [][NextRect]_vars

\* ------------------------------------------------------- corner ordering

\* the points of the pixel grid
GridPoints == {<<x, y>> : x \in 0..MaxCoord, y \in 0..MaxCoord}

\* pts = approx.reshape(4, 2) / best_rect.reshape(4, 2): any four points
InitCorner ==
  /\ InitOcrVars
  /\ variant = "simple"
  /\ IdleFrame
  /\ IdlePipe
  /\ IdleText
  /\ IdleRect
  /\ corner_pts \in [1..4 -> GridPoints]
  /\ ordered_rect = <<>>
  /\ cpc = "input"

\* rect = self._order_points(pts), and the same lines of the fast-plate script
OrderPoints ==
  /\ cpc = "input"
  /\ ordered_rect' = order_points(corner_pts)
  /\ cpc' = "ordered"
  /\ UNCHANGED <<ocrVars, frameVars, pipeVars, textVars, rectVars, bufferVars,
                 corner_pts>>

NextCorner == OrderPoints

SpecCorner == InitCorner /\ [][NextCorner]_vars

\* --------------------------------------------------------------- C1 .. C8

\* C1: at most one background OCR task is alive in every reachable state
\* (a second request while the first task has not finished starts nothing).
AtMostOneOcrTask == Cardinality(tasks) <= 1

\* C2: once the scheduler's stop flag is set the latest-result slot is
\* never written again, wherever an in-flight task stands.
NoPublishAfterStop == [][ocr_stop_event => latest_result' = latest_result]_vars

\* every text the validators of the two scripts return for the OCR texts
ValidatedPlates ==
  ({fast_validate_and_format_plate(t) : t \in OcrTexts}
     \cup {simple_read_license_plate(t) : t \in OcrTexts}) \ {None}

\* C7: latest() is the sentinel or a text the plate validator returned as a
\* formatted plate; a text failing validation never becomes the value shown.
LatestIsSentinelOrValidated ==
  latest_result = NoPlateDetected \/ latest_result \in ValidatedPlates

\* C8: a request issued after stop, or while an OCR task is running, starts
\* no task and changes neither the held crop, the latest result nor the flag.
DroppedRequestHasNoEffect ==
  [][(requested' = requested + 1 /\ (ocr_stop_event \/ tasks # {}))
       => UNCHANGED <<current_task, latest_result, processing, tasks, started>>]_vars

\* --------------------------------------------------------------- C3 .. C6

\* C3: once the stop signal is set (and the caller's cleanup runs), the
\* detection worker eventually leaves its loop and terminates, wherever it
\* stood when the signal was set; threads are scheduled fairly and every
\* detector / OCR call returns.
StopLeadsToWorkerDone == stop_event ~> (wpc = "done")

\* the cleanup has drained the queue and sent the sentinel while the worker
\* is still in the middle of a frame
CleanupDoneWorkerMidFrame ==
  /\ stop_event
  /\ mpc = "join"
  /\ wpc = "plate"

\* C4: the input queue never holds more than 5 items; a submit made while
\* it holds 5 drops the submitted frame, leaves the queue as it was and the
\* producer goes on to its next step in that same step (no error, no wait).
QueueBoundedAndFullSubmitDrops ==
  /\ [](Len(detection_input_queue) <= 5)
  /\ [][(frame_nmr_display' = frame_nmr_display + 1
           /\ Len(detection_input_queue) = 5)
          => /\ detection_input_queue' = detection_input_queue
             /\ dropped' = dropped \cup {frame_nmr_display'}
             /\ enqueued' = enqueued
             /\ mpc' = "results"]_vars

\* the sixth frame was refused by a queue holding the first five
FrameDroppedAtFullQueue ==
  /\ Len(detection_input_queue) = 5
  /\ dropped # {}
  /\ mpc = "results"

PositionIn(seq, x) == CHOOSE i \in 1..Len(seq) : seq[i] = x

\* C5: the worker processes frames in the order of their enqueueing: each
\* processed frame was enqueued, a frame processed earlier was enqueued
\* earlier (so none is processed twice), and every frame but the one
\* processed last has finished before the next one was started.
ProcessedInEnqueueOrder ==
  /\ \A i \in 1..Len(processed) : \E k \in 1..Len(enqueued) : enqueued[k] = processed[i]
  /\ \A i \in 1..Len(processed) : \A j \in (i + 1)..Len(processed) :
       PositionIn(enqueued, processed[i]) < PositionIn(enqueued, processed[j])
  /\ \A i \in 1..(Len(processed) - 1) : processed[i] \in finished

\* three frames were taken while later ones waited in the queue
ThreeProcessedWitness ==
  /\ Len(processed) = 3
  /\ Cardinality(finished) = 2
  /\ Len(detection_input_queue) >= 2

\* C6: the worker leaves its loop only at the loop test with the stop signal
\* set or on dequeuing the None sentinel; an exception raised while a frame
\* is processed is caught by the handler and the worker returns to the loop.
WorkerLeavesOnlyOnStopOrSentinel ==
  /\ [](wpc # "crashed")
  /\ [][(wpc # "done" /\ wpc' = "done")
          => \/ wpc = "loop" /\ stop_event
             \/ wpc = "get" /\ frame_data' = QueueNone]_vars
  /\ [][raised' # raised => wpc' = "except"]_vars
  /\ [][(wpc = "except" /\ wpc' # wpc) => wpc' = "loop"]_vars

\* a frame raised, and the worker is processing a later frame
ProcessingAfterExceptionWitness ==
  /\ raised # {}
  /\ frame_data \notin raised
  /\ \A f \in raised : f \in finished /\ f < frame_data
  /\ wpc = "plate"

\* -------------------------------------------------------------- C9 .. C10

\* the box of a vehicle grown by 20 pixels on all four sides
ExpandedBox(v) == <<v[1] - 20, v[2] - 20, v[3] + 20, v[4] + 20>>

LiesInside(b, e) == b[1] >= e[1] /\ b[2] >= e[2] /\ b[3] <= e[3] /\ b[4] <= e[4]

\* a detection of the vehicle detector that counts as a vehicle
IsAcceptedVehicle(d) == d[6] \in {2, 3, 5, 7} /\ d[5] > 5

InSomeExpandedVehicle(b) ==
  \E k \in 1..Len(vehicle_detections_raw) :
    /\ IsAcceptedVehicle(vehicle_detections_raw[k])
    /\ LiesInside(b, ExpandedBox(vehicle_detections_raw[k]))

FrameDetected == wpc \in {"publish", "published"}

\* C9: every plate kept by the association step lies inside the box of an
\* accepted vehicle grown by 20 pixels on all sides; a plate inside no such
\* box is neither in the published plate list nor chosen as best plate.
KeptPlatesLieInExpandedVehicle ==
  /\ FrameDetected =>
       /\ \A i \in 1..Len(detected_license_plates) :
            InSomeExpandedVehicle(detected_license_plates[i])
       /\ best_license_plate_coords # NoCoords =>
            InSomeExpandedVehicle(best_license_plate_coords)
  /\ \A i \in 1..Len(results_dict.plates) :
       InSomeExpandedVehicle(results_dict.plates[i])

\* a frame with an accepted vehicle, a kept plate and a plate outside every
\* expanded vehicle box, after publication
KeptAndRejectedPlateWitness ==
  /\ wpc = "published"
  /\ Len(results_dict.plates) = 1
  /\ Len(license_plates_raw) = 2
  /\ best_license_plate_coords # NoCoords
  /\ \E i \in 1..2 : ~InSomeExpandedVehicle(license_plates_raw[i])

\* the plates of the frame that are associated to a vehicle, in detector order
AssociatedPlates ==
  IF show_plates
  THEN SelectSeq(license_plates_raw, LAMBDA d : InSomeExpandedVehicle(d))
  ELSE <<>>

Coords(d) == <<d[1], d[2], d[3], d[4]>>

\* C10: the best plate is None or an associated plate whose confidence is at
\* least that of every associated plate of the frame, and among the plates
\* of that confidence the first of the detector's output.
BestPlateIsFirstMaximum ==
  (FrameDetected /\ best_license_plate_coords # NoCoords) =>
    \E i \in 1..Len(AssociatedPlates) :
      /\ Coords(AssociatedPlates[i]) = best_license_plate_coords
      /\ AssociatedPlates[i][5] = best_score
      /\ \A j \in 1..Len(AssociatedPlates) :
           AssociatedPlates[j][5] <= AssociatedPlates[i][5]
      /\ \A j \in 1..(i - 1) :
           AssociatedPlates[j][5] < AssociatedPlates[i][5]

\* two associated plates of equal, maximal confidence in different boxes:
\* the first one is the best plate
TiedPlatesWitness ==
  /\ FrameDetected
  /\ Len(AssociatedPlates) = 2
  /\ AssociatedPlates[1][5] = AssociatedPlates[2][5]
  /\ Coords(AssociatedPlates[1]) # Coords(AssociatedPlates[2])
  /\ best_license_plate_coords = Coords(AssociatedPlates[1])

\* ------------------------------------------------------------------- C11

\* C11: the best plate is None only if the frame has no associated plate:
\* with at least one associated plate, of any confidence from 0 to 1, the
\* best plate is an associated plate of the highest confidence, not None.
BestPlateNoneOnlyWithoutAssociatedPlate ==
  (FrameDetected /\ Len(AssociatedPlates) > 0) =>
    /\ best_license_plate_coords # NoCoords
    /\ \E i \in 1..Len(AssociatedPlates) :
         /\ Coords(AssociatedPlates[i]) = best_license_plate_coords
         /\ \A j \in 1..Len(AssociatedPlates) :
              AssociatedPlates[j][5] <= AssociatedPlates[i][5]

\* ------------------------------------------------------------ C12 .. C17

\* the canonical numeric string of a text: its digits after the confusable
\* characters of the upper-cased text were replaced
CanonicalNumeric(text) == numeric_only(corrected_raw_text(text))

\* the digits the validator of the running script counts
CountedDigits ==
  IF variant = "fast" THEN numeric_only(ocr_raw_text)
  ELSE CanonicalNumeric(ocr_raw_text)

HintSeparators == {"-"} \cup WhiteSpace

\* the text is n1, n2 and n3 letters or digits with at most one separator
\* between the groups
LayoutHint(n1, n2, n3, text) ==
  \E a \in 0..1, b \in 0..1 :
    /\ Len(text) = n1 + a + n2 + b + n3
    /\ \A i \in 1..Len(text) :
         IF (a = 1 /\ i = n1 + 1) \/ (b = 1 /\ i = n1 + a + n2 + 1)
         THEN text[i] \in HintSeparators
         ELSE text[i] \in Digits \cup Letters

\* C13: a text of 7 digits d1..d7 gives d1d2-d3d4d5-d6d7 if it matches only
\* the separator pattern NN-NNN-NN, d1-d2d3d4d5-d6d7 if it matches only
\* N-NNNN-NN, and both joined by " or " if it matches both or neither.
SevenDigitLayoutFollowsHint ==
  (tpc = "validated" /\ Len(CountedDigits) = 7) =>
    LET d == CountedDigits
        f1 == <<d[1], d[2], "-", d[3], d[4], d[5], "-", d[6], d[7]>>
        f2 == <<d[1], "-", d[2], d[3], d[4], d[5], "-", d[6], d[7]>>
        m1 == LayoutHint(2, 3, 2, ocr_raw_text)
        m2 == LayoutHint(1, 4, 2, ocr_raw_text)
    IN formatted = IF m1 /\ ~m2 THEN f1
                   ELSE IF m2 /\ ~m1 THEN f2
                   ELSE f1 \o <<" ", "o", "r", " ">> \o f2

\* C14: 9 digits d1..d9 read by the numeric-only script give
\* d2d3d4-d5d6-d7d8d9, then " or ", then d1d2d3-d4d5-d6d7d8.
NineDigitsGiveDropFirstThenDropLast ==
  (tpc = "validated" /\ variant = "fast" /\ Len(CountedDigits) = 9) =>
    LET d == CountedDigits
    IN formatted =
         <<d[2], d[3], d[4], "-", d[5], d[6], "-", d[7], d[8], d[9],
           " ", "o", "r", " ",
           d[1], d[2], d[3], "-", d[4], d[5], "-", d[6], d[7], d[8]>>

\* "123456789" has given "234-56-789 or 123-45-678"
NineDigitsWitness ==
  /\ tpc = "validated"
  /\ variant = "fast"
  /\ ocr_raw_text = <<"1", "2", "3", "4", "5", "6", "7", "8", "9">>
  /\ formatted = <<"2", "3", "4", "-", "5", "6", "-", "7", "8", "9",
                   " ", "o", "r", " ",
                   "1", "2", "3", "-", "4", "5", "-", "6", "7", "8">>

\* C15: 8 digits d1..d8 give the single layout d1d2d3-d4d5-d6d7d8 in both
\* scripts, whatever separators the text has.
EightDigitsGiveSingleLayout ==
  (tpc = "validated" /\ Len(CountedDigits) = 8) =>
    LET d == CountedDigits
    IN formatted = <<d[1], d[2], d[3], "-", d[4], d[5], "-", d[6], d[7], d[8]>>

\* python_yolo.py has read "1-2345-678", separated like a 7-digit plate
EightDigitsWitness ==
  /\ tpc = "validated"
  /\ variant = "simple"
  /\ ocr_raw_text = <<"1", "-", "2", "3", "4", "5", "-", "6", "7", "8">>
  /\ formatted = <<"1", "2", "3", "-", "4", "5", "-", "6", "7", "8">>

\* a result that is one formatted plate, not two joined by " or "
IsSingle(text) == text # None /\ \A i \in 1..Len(text) : text[i] # "o"

\* the validator of the running script applied to a text
Revalidated(text) ==
  IF variant = "fast" THEN fast_validate_and_format_plate(text)
  ELSE simple_read_license_plate(text)

\* C16: a single formatted result F, validated again as a raw text, gives F.
ValidatorIsIdempotent ==
  (tpc = "validated" /\ IsSingle(formatted)) => Revalidated(formatted) = formatted

\* python_yolo.py has confirmed the layout N-NNNN-NN
SingleSecondLayoutWitness ==
  /\ tpc = "validated"
  /\ variant = "simple"
  /\ formatted = <<"1", "-", "2", "3", "4", "5", "-", "6", "7">>

IsPunctuation(text) ==
  /\ text # <<>>
  /\ \A i \in 1..Len(text) : text[i] \notin Digits \cup Letters \cup {"_"}

\* C17: normalising and formatting returns a value for every text, and None
\* for the empty text, for pure punctuation and for every text of length 50.
GarbageGivesNone ==
  tpc = "validated" =>
    /\ formatted = None \/ Len(formatted) \in 9..24
    /\ (ocr_raw_text = <<>> \/ IsPunctuation(ocr_raw_text)
          \/ Len(ocr_raw_text) = GarbageLen) => formatted = None

\* ------------------------------------------------------------------- C18

\* no contour of the crop is a quadrilateral that passes the script's tests,
\* and no plate-like text region was found either
NoQualifyingQuadrilateral ==
  /\ \A i \in 1..Len(contours) :
       IF variant = "simple" THEN ~simple_qualifies(contours[i], plate_crop_bgr)
       ELSE ~fast_qualifies(contours[i], plate_crop_bgr)
  /\ variant = "fast" => text_region(text_boxes, plate_crop_bgr) = NoRect

\* C18: for an empty crop, and for a crop in which no qualifying
\* quadrilateral is found, the rectifier returns an image identical to its
\* input (same dimensions, same pixels), in both scripts.
RectifierFallsBackToInput ==
  (rpc = "rectified"
     /\ (plate_crop_bgr.w * plate_crop_bgr.h = 0 \/ NoQualifyingQuadrilateral))
    => rectified = plate_crop_bgr

\* ------------------------------------------------------------------- C19

\* C19: the interval the worker uses is at least 1: a configured value of 0
\* or less is replaced by 1, a value of 1 or more is kept; with a replaced
\* value every processed frame that has a plate crop goes on to the
\* asynchronous OCR request, and the request is made.
EffectiveIntervalAtLeastOne ==
  /\ \A i \in (0 - 3)..6 :
       /\ effective_interval(i) >= 1
       /\ i <= 0 => effective_interval(i) = 1
       /\ i >= 1 => effective_interval(i) = i
  /\ [](/\ ocr_processing_interval >= 1
        /\ ocr_interval <= 0 => ocr_processing_interval = 1
        /\ ocr_interval >= 1 => ocr_processing_interval = ocr_interval)
  /\ [][(/\ ocr_interval <= 0
          /\ wpc = "plate"
          /\ wpc' \notin {"plate", "except"}
          /\ crop_size(best_license_plate_coords) > 0) => wpc' = "sync"]_vars
  /\ [][(/\ ocr_interval <= 0
          /\ wpc = "sync"
          /\ wpc' \notin {"sync", "except"}) => wpc' = "async"]_vars
  /\ [][(wpc = "async" /\ wpc' = "acquire") => requested' = requested + 1]_vars

\* --ocr-interval 0: the first and the second frame both made a request
EveryFrameRequestsWitness ==
  /\ ocr_interval = 0
  /\ ocr_processing_interval = 1
  /\ frame_nmr_processed = 2
  /\ requested = 2
  /\ wpc = "acquire"

\* ------------------------------------------------------------------- C20

\* C20: the shared results are those of the most recently completed frame.
\* The dictionary changes only while the worker holds the lock; the worker
\* is inside its with block exactly while it holds the lock, so a reader
\* holding the lock never sees the dictionary between the two assignments;
\* when the worker leaves the block both entries are the lists of the frame
\* it has just processed (emptied when the list is not shown); and the frame
\* being written is newer than every frame that finished before it.
SharedResultsAreLatestCompletedFrame ==
  /\ [](/\ (wpc \in {"write_vehicles", "write_plates"}) <=> (lock = "worker")
        /\ lock = "main" <=> mpc = "read"
        /\ wpc \in {"write_vehicles", "write_plates"} =>
             \A f \in finished : f < frame_data)
  /\ [][results_dict' # results_dict => lock = "worker"]_vars
  /\ [][lock = "main" => results_dict' = results_dict]_vars
  /\ [][(wpc = "write_plates" /\ wpc' # wpc) =>
          /\ results_dict'.vehicles =
               IF show_vehicles THEN detected_vehicles ELSE <<>>
          /\ results_dict'.plates =
               IF show_plates THEN detected_license_plates ELSE <<>>
          /\ lock' = "free"]_vars

ReaderHoldsLockWhileWorkerWaits ==
  /\ lock = "main"
  /\ wpc = "acquire"
  /\ frame_data >= 2
  /\ finished \ raised # {}
  /\ results_dict.vehicles # <<>>
  /\ results_dict.plates # <<>>
  /\ detected_vehicles # results_dict.vehicles

\* ------------------------------------------------------------------- C21

\* C21: a task reads the crop of the request that started it. A request
\* that starts a task stores its own crop in current_task, and from then
\* until the task has made its OCR call current_task is not replaced.
TaskReadsCropOfItsRequest ==
  /\ [][started' = started + 1 => current_task' = requested']_vars
  /\ [][(\E t \in tasks : t.pc \in {"entry", "mark", "ocr"}) =>
          current_task' = current_task]_vars

\* ------------------------------------------------------------------- C22

\* C22: once the stop signal is set the worker takes no further frame from
\* the queue: a frame is counted as processed only while the signal is clear.
NoDequeueAfterStop ==
  [][stop_event => processed' = processed]_vars

\* ------------------------------------------------------------------- C23

CleanupOrder == <<"finally", "ocr_stop", "drain", "sentinel", "join", "exit">>

CleanupRank(pc) ==
  IF pc \in {"drain_get", "drain_done"} THEN 3
  ELSE IF \E i \in 1..6 : CleanupOrder[i] = pc
       THEN CHOOSE i \in 1..6 : CleanupOrder[i] = pc
       ELSE 0

\* C23: the cleanup sets the stop signal, then the OCR stop flag, then
\* drains the queue, then puts the sentinel if the worker is alive, then
\* joins. When it has completed the queue holds no frame (at most the
\* sentinel); the sentinel is never put into a full queue; and a frame
\* removed by the drain is never processed by the worker.
CleanupSequence ==
  /\ [](/\ CleanupRank(mpc) >= 2 => stop_event
        /\ CleanupRank(mpc) >= 3 => ocr_stop_event
        /\ mpc = "sentinel" => ~put_nowait(detection_input_queue, QueueNone).full
        /\ mpc = "exit" => detection_input_queue \in {<<>>, <<QueueNone>>}
        /\ \A i \in 1..Len(processed) : processed[i] \notin drained)
  /\ [][CleanupRank(mpc) >= 1 =>
          /\ CleanupRank(mpc') >= CleanupRank(mpc)
          /\ CleanupRank(mpc') <= CleanupRank(mpc) + 1]_vars
  /\ [][drained' # drained => CleanupRank(mpc) = 3]_vars
  /\ [][(Len(detection_input_queue') > Len(detection_input_queue)
          /\ CleanupRank(mpc) >= 1) =>
          /\ mpc = "sentinel"
          /\ is_alive
          /\ detection_input_queue' = <<QueueNone>>]_vars

CleanupDrainedBeforeSentinel ==
  /\ mpc = "exit"
  /\ Cardinality(drained) >= 2
  /\ Len(processed) >= 1
  /\ detection_input_queue = <<QueueNone>>

\* ------------------------------------------------------------------- C24

\* C24: every access to the shared data is made by a thread holding the
\* lock: the results dictionary is written by the worker and read by the
\* caller under the lock, and latest_result is written by an OCR task and
\* read through get_latest_result (drawn in the display step) only while
\* the lock is held.
SharedAccessUnderLock ==
  /\ [][results_dict' # results_dict => lock = "worker"]_vars
  /\ [](mpc = "read" => lock = "main")
  /\ [][latest_result' # latest_result => locked(lock)]_vars
  /\ [](mpc = "display" => lock = "main")

\* ------------------------------------------------------------------- C25

InQueue(f) == \E i \in 1..Len(detection_input_queue) : detection_input_queue[i] = f

Taken(f) == \E i \in 1..Len(processed) : processed[i] = f

\* the number of places a frame is in
Places(f) ==
  (IF f \in dropped THEN 1 ELSE 0) + (IF InQueue(f) THEN 1 ELSE 0)
  + (IF Taken(f) THEN 1 ELSE 0) + (IF f \in drained THEN 1 ELSE 0)

\* C25: frame accounting. Every frame the producer has tried to submit is in
\* exactly one place: dropped at the full queue, waiting in the queue, taken
\* by the worker, or removed by the drain of the cleanup; it occurs there
\* once, and frames not yet submitted are nowhere.
FrameAccounting ==
  /\ \A f \in 1..frame_nmr_display : Places(f) = 1
  /\ \A f \in (frame_nmr_display + 1)..(MaxFrames + 1) : Places(f) = 0
  /\ \A i, j \in 1..Len(detection_input_queue) :
       detection_input_queue[i] = detection_input_queue[j] => i = j
  /\ \A i, j \in 1..Len(processed) : processed[i] = processed[j] => i = j

FrameInEveryPlaceWitness ==
  /\ dropped # {}
  /\ drained # {}
  /\ Len(processed) >= 1
  /\ \E f \in 1..frame_nmr_display : InQueue(f)

\* ------------------------------------------------------------------- C26

\* what a frame that reaches the publish step leaves in the dictionary
CompletePairs ==
  {[vehicles |-> <<>>, plates |-> <<>>]} \cup
  { LET d == detect(out[1], out[2])
    IN [vehicles |-> IF show_vehicles THEN d.vehicles ELSE <<>>,
        plates |-> IF show_plates THEN d.plates ELSE <<>>] :
    out \in PipelineDetections }

\* C26: a frame whose processing raises before the publish step leaves the
\* shared results as the last successful frame wrote them: the raise and
\* everything up to the next dequeue change neither list, the dictionary
\* never holds a half-written pair outside the two assignments, and the
\* failed frame has been counted in frame_nmr_processed.
FailedFrameLeavesResults ==
  /\ [](/\ wpc # "write_plates" => results_dict \in CompletePairs
        /\ frame_nmr_processed = Len(processed)
        /\ \A f \in raised : \E i \in 1..Len(processed) : processed[i] = f)
  /\ [][raised' # raised =>
          /\ results_dict' = results_dict
          /\ frame_nmr_processed' = frame_nmr_processed
          /\ processed[Len(processed)] = frame_data
          /\ raised' = raised \cup {frame_data}]_vars
  /\ [][(frame_data \in raised /\ frame_data' = frame_data) =>
          results_dict' = results_dict]_vars

FailedFrameAfterPublishedFrame ==
  /\ wpc = "except"
  /\ frame_data \in raised
  /\ frame_nmr_processed = 2
  /\ results_dict.plates # <<>>
  /\ detected_license_plates # results_dict.plates

\* ------------------------------------------------------------------- C27

\* the worker's step goes on from pc without raising
GoesOn(pc) == wpc = pc /\ wpc' \notin {pc, "except"}

\* C27: a frame with a best plate and a non-empty crop makes the synchronous
\* OCR call; after it the asynchronous request is issued exactly if
\* frame_nmr_processed, which counts every dequeued frame, is a multiple of
\* the effective interval; the publish step follows both; a frame without a
\* best plate, or with an empty crop, goes straight to the publish step.
SyncEveryFrameAsyncEveryNth ==
  /\ [](frame_nmr_processed = Len(processed))
  /\ [][GoesOn("detect") =>
          wpc' = IF best_license_plate_coords' # NoCoords THEN "plate"
                 ELSE "acquire"]_vars
  /\ [][GoesOn("plate") =>
          wpc' = IF crop_size(best_license_plate_coords) > 0 THEN "sync"
                 ELSE "acquire"]_vars
  /\ [][GoesOn("sync") =>
          wpc' = IF frame_nmr_processed % ocr_processing_interval = 0
                 THEN "async" ELSE "acquire"]_vars
  /\ [][GoesOn("async") => wpc' = "acquire" /\ requested' = requested + 1]_vars
  /\ [][requested' # requested => wpc = "async"]_vars
  /\ [][wpc' = "sync" /\ wpc # "sync" => wpc = "plate"]_vars
  /\ [][wpc' = "async" /\ wpc # "async" => wpc = "sync"]_vars
  /\ [][wpc' = "write_vehicles" /\ wpc # "write_vehicles" => wpc = "acquire"]_vars
  /\ [][wpc' = "acquire" /\ wpc # "acquire" =>
          wpc \in {"detect", "plate", "sync", "async"}]_vars

\* interval 2: the first frame had a plate and made only the synchronous
\* call, the second frame has made the request as well
SecondFrameRequestsWitness ==
  /\ ocr_processing_interval = 2
  /\ frame_nmr_processed = 2
  /\ requested = 1
  /\ wpc = "acquire"
  /\ results_dict.plates # <<>>
  /\ crop_size(best_license_plate_coords) > 0

\* ------------------------------------------------------------------- C28

\* a task has ended in this step
TaskEnded == tasks' # tasks /\ tasks' \subseteq tasks

TaskPcs == {"entry", "mark", "ocr", "check", "publish", "finally"}

Alive(n) == \E t \in tasks : t.id = n

\* C29: an exception inside an OCR task stays inside the task. A task is
\* always at a statement of _process_ocr; the step in which its OCR call
\* raises, and every step other than the publish step, leaves latest_result
\* as it is; the exception the reader of python_yolo.py catches gives None,
\* which publishes nothing; the task then ends through the finally clause
\* with the running flag cleared; every task ends; and a request made when
\* no task is alive and the scheduler can run is accepted.
OcrExceptionStaysInTask ==
  /\ [](\A t \in tasks : t.pc \in TaskPcs)
  /\ [][\A t \in tasks \ tasks' :
          t.pc # "publish" => latest_result' = latest_result]_vars
  /\ [][\A t \in tasks \ tasks' : \A u \in tasks' \ tasks :
          (variant = "fast" /\ u.result = Unbound) =>
            /\ u.pc = "finally"
            /\ t.pc \in {"ocr", "finally"}
            /\ latest_result' = latest_result]_vars
  /\ [][\A t \in tasks \ tasks' :
          (variant = "simple" /\ t.pc = "publish" /\ t.result = None) =>
            latest_result' = latest_result]_vars
  /\ [][\A t \in tasks \ tasks' :
          t.pc = "finally" => tasks' = tasks \ {t} /\ ~processing']_vars
  /\ \A n \in 1..FairRequests : Alive(n) ~> ~Alive(n)
  /\ [][(tasks = {} /\ ~ocr_stop_event /\ ocr_recognizer
          /\ requested' = requested + 1) => started' = started + 1]_vars

\* a task's OCR call raised after an earlier task had published a plate,
\* and a later request has been accepted
RaisedTaskKeepsPlateWitness ==
  /\ ~ocr_stop_event
  /\ latest_result \notin {NoPlateDetected}
  /\ variant = "fast"
  /\ \E t \in tasks : t.pc = "finally" /\ t.result = Unbound /\ t.id = 2
  /\ started = 2

\* ------------------------------------------------------------------- C30

\* C30: the lock is never held across a detector or OCR call. The worker
\* holds it only at the two assignments, which it reaches from the acquire
\* step that follows detection, rectification and OCR of the frame; while
\* it detects, crops, rectifies or runs OCR it does not hold it; the caller
\* holds it only in the step that reads the two lists.
LockNotHeldAcrossCalls ==
  /\ [](/\ lock = "worker" => wpc \in {"write_vehicles", "write_plates"}
        /\ wpc \in {"get", "detect", "plate", "sync", "async", "except"} =>
             lock # "worker"
        /\ lock = "main" => mpc = "read"
        /\ lock \in {"free", "worker", "main"})
  /\ [][(lock # "worker" /\ lock' = "worker") =>
          wpc = "acquire" /\ wpc' = "write_vehicles"]_vars
  /\ [][(lock # "main" /\ lock' = "main") =>
          mpc = "results" /\ mpc' = "read"]_vars
  /\ [][(lock = "main" /\ mpc' # mpc) => lock' = "free"]_vars

\* the caller reads the lists while the worker runs OCR on the next frame
ReaderHoldsLockDuringOcr ==
  /\ lock = "main"
  /\ wpc = "sync"
  /\ results_dict.plates # <<>>

\* ------------------------------------------------------------------- C31

OnlyDigits(text) == text # <<>> /\ \A i \in 1..Len(text) : text[i] \in Digits

\* C31: on a raw text made of decimal digits only the two validators agree:
\* what the script that ran returned is what the validator of the other
\* script returns for the same text and its digit string.
ValidatorsAgreeOnDigits ==
  (tpc = "validated" /\ OnlyDigits(ocr_raw_text)) =>
    formatted =
      IF variant = "fast"
      THEN simple_validate_and_format_plate_by_rules(
             ocr_raw_text, numeric_only(ocr_raw_text))
      ELSE fast_validate_and_format_plate(ocr_raw_text)

\* ------------------------------------------------------------------- C32

PointSum(p) == p[1] + p[2]

XMinusY(p) == p[1] - p[2]

YMinusX(p) == p[2] - p[1]

InputPoints == {corner_pts[i] : i \in 1..4}

\* the first of the four points on which the measure m is least / greatest
FirstLeast(m(_)) ==
  corner_pts[CHOOSE i \in 1..4 :
    /\ \A j \in 1..4 : m(corner_pts[i]) <= m(corner_pts[j])
    /\ \A j \in 1..(i - 1) : m(corner_pts[j]) > m(corner_pts[i])]

FirstGreatest(m(_)) ==
  corner_pts[CHOOSE i \in 1..4 :
    /\ \A j \in 1..4 : m(corner_pts[i]) >= m(corner_pts[j])
    /\ \A j \in 1..(i - 1) : m(corner_pts[j]) < m(corner_pts[i])]

\* C32 as stated: of any four integer points the ordering returns, in this
\* order, a point of least x+y, a point of least x-y, a point of greatest
\* x+y and a point of greatest x-y.
CornersBySumAndXMinusY ==
  cpc = "ordered" =>
    /\ \A p \in InputPoints : PointSum(ordered_rect[1]) <= PointSum(p)
    /\ \A p \in InputPoints : PointSum(ordered_rect[3]) >= PointSum(p)
    /\ \A p \in InputPoints : XMinusY(ordered_rect[2]) <= XMinusY(p)
    /\ \A p \in InputPoints : XMinusY(ordered_rect[4]) >= XMinusY(p)

\* C32, amended: of any four integer points the ordering returns, in this
\* order, the first point of least x+y, the first point of least y-x (the
\* greatest x-y), the first point of greatest x+y and the first point of
\* greatest y-x (the least x-y).
CornersBySumAndYMinusX ==
  cpc = "ordered" =>
    /\ ordered_rect[1] = FirstLeast(PointSum)
    /\ ordered_rect[2] = FirstLeast(YMinusX)
    /\ ordered_rect[3] = FirstGreatest(PointSum)
    /\ ordered_rect[4] = FirstGreatest(YMinusX)
    /\ \A p \in InputPoints : XMinusY(ordered_rect[2]) >= XMinusY(p)
    /\ \A p \in InputPoints : XMinusY(ordered_rect[4]) <= XMinusY(p)

\* an upright rectangle given out of order comes back as top-left, top-right,
\* bottom-right, bottom-left (y grows downwards)
UprightRectangleOrderedWitness ==
  /\ cpc = "ordered"
  /\ corner_pts = << <<2, 1>>, <<0, 1>>, <<0, 0>>, <<2, 0>> >>
  /\ ordered_rect = << <<0, 0>>, <<2, 0>>, <<2, 1>>, <<0, 1>> >>

\* ------------------------------------------------------------------- C33

PairwiseDistinct(s) == \A i, j \in DOMAIN s : i # j => s[i] # s[j]

\* C33: of four pairwise distinct points the four ordered corners are
\* pairwise distinct and are exactly the four points given.
OrderedCornersArePermutation ==
  (cpc = "ordered" /\ PairwiseDistinct(corner_pts)) =>
    /\ PairwiseDistinct(ordered_rect)
    /\ {ordered_rect[i] : i \in 1..4} = InputPoints

\* ------------------------------------------------------------------- C34

\* the place of the first " or " in a text, 0 if it has none
OrPlace(text) ==
  LET places == {k \in 1..(Len(text) - 3) : SubSeq(text, k, k + 3) = Or}
  IN IF places = {} THEN 0 ELSE CHOOSE k \in places : \A j \in places : k <= j

\* the candidates of a result: the string, or the two sides of " or "
Candidates(text) ==
  LET k == OrPlace(text)
  IN IF k = 0 THEN <<text>>
     ELSE <<SubSeq(text, 1, k - 1), SubSeq(text, k + 4, Len(text))>>

WithoutDashes(text) == SelectSeq(text, LAMBDA c : c # "-")

OnlyDigitsAndDashes(text) ==
  \A i \in 1..Len(text) : text[i] \in Digits \cup {"-"}

\* C34 as stated: every candidate of a result that is not None is made of
\* digits and '-' only, and a candidate of 7 or 8 digits is, without its
\* '-', the canonical numeric string of the raw text.
CandidatesAreCanonicalNumeric ==
  (tpc = "validated" /\ formatted # None) =>
    \A i \in DOMAIN Candidates(formatted) :
      LET c == Candidates(formatted)[i]
      IN /\ OnlyDigitsAndDashes(c)
         /\ Len(WithoutDashes(c)) \in {7, 8} =>
              WithoutDashes(c) = CanonicalNumeric(ocr_raw_text)

\* C34, amended: every candidate of a result that is not None is made of
\* digits and '-' only; without their '-' the candidates of python_yolo.py
\* are the canonical numeric string, and those of the fast-plate script are
\* the digits of the raw text as they stand (no confusable map) when there
\* are 7 or 8 of them, and these digits without the first and without the
\* last when there are 9.
CandidatesKeepCountedDigits ==
  (tpc = "validated" /\ formatted # None) =>
    LET cands == Candidates(formatted)
        n == CountedDigits
    IN /\ \A i \in DOMAIN cands : OnlyDigitsAndDashes(cands[i])
       /\ Len(n) \in 7..9
       /\ Len(n) \in {7, 8} =>
            \A i \in DOMAIN cands : WithoutDashes(cands[i]) = n
       /\ Len(n) = 9 =>
            /\ Len(cands) = 2
            /\ WithoutDashes(cands[1]) = SubSeq(n, 2, 9)
            /\ WithoutDashes(cands[2]) = SubSeq(n, 1, 8)

\* python_yolo.py read "12345O7": both layouts of the digits 1234507
MappedLetterKeptInBothCandidates ==
  /\ tpc = "validated"
  /\ variant = "simple"
  /\ ocr_raw_text = <<"1", "2", "3", "4", "5", "O", "7">>
  /\ Candidates(formatted) =
       << <<"1", "2", "-", "3", "4", "5", "-", "0", "7">>,
          <<"1", "-", "2", "3", "4", "5", "-", "0", "7">> >>

\* ------------------------------------------------------------------- C35

\* the array objects the detection worker holds for a frame and may draw on:
\* the frame, the plate crop cut from it, the rectified plate, and the image
\* it annotates and saves
WorkerArrays ==
  { [pixels |-> n, object |-> o, copies |-> c] :
      n \in 1..MaxRequests,
      o \in {"frame", "license_plate_crop_orig", "license_plate_corrected"},
      c \in {<<>>, <<"annotated_lp_to_save">>} }

\* the tasks that have read their crop
TasksThatRead == {t \in tasks : t.buffer # NoBuffer}

\* C35: the array an OCR task reads is a copy made for the scheduler, never
\* one of the arrays the detection worker holds (frame, plate crop, rectified
\* plate, annotated image); so is the array the scheduler keeps for the
\* next task.
OcrReadsPrivateCopy ==
  /\ current_task_buffer # NoBuffer =>
       /\ current_task_buffer \notin WorkerArrays
       /\ current_task_buffer.copies = <<"call", "process_latest">>
  /\ \A t \in TasksThatRead :
       /\ t.buffer \notin WorkerArrays
       /\ t.buffer.copies = <<"call", "process_latest">>
       /\ t.buffer.pixels = t.crop

\* a task of the fast-plate script has read the copy of the copy of the
\* rectified plate of the first request
TaskReadCopyOfRectifiedPlate ==
  \E t \in tasks :
    /\ t.pc = "check"
    /\ variant = "fast"
    /\ t.buffer = [pixels |-> 1, object |-> "license_plate_corrected",
                   copies |-> <<"call", "process_latest">>]
    /\ worker_buffer(1) \in WorkerArrays

\* ------------------------------------------------------------------- C36

\* the frames the worker has dequeued and not yet called task_done for
FramesHeldByWorker == {f \in 1..MaxFrames : Taken(f) /\ f \notin finished}

\* frames removed from the queue for which task_done has not been called yet:
\* the worker's frame and the frame the drain has just removed
DequeuedNotDone ==
  Cardinality(FramesHeldByWorker) + (IF mpc = "drain_done" THEN 1 ELSE 0)

\* the worker has left its loop on the sentinel, for which it calls no
\* task_done
SentinelTaken ==
  /\ mpc \in {"join", "exit"}
  /\ wpc = "done"
  /\ frame_data = QueueNone
  /\ ~InQueue(QueueNone)

\* C36: task_done is called at most once for each item removed from the
\* queue. The queue's count of unfinished items is always the items still
\* queued plus the frames removed and not yet marked done, and one more only
\* once the worker has taken the sentinel; so the calls never exceed the
\* items removed. The worker holds at most one such frame, comes to its
\* except clause only for a frame whose processing raised, and no call of
\* task_done ever fails.
TaskDoneOncePerDequeuedItem ==
  /\ unfinished_tasks >= Len(detection_input_queue)
  /\ \/ unfinished_tasks = Len(detection_input_queue) + DequeuedNotDone
     \/ /\ unfinished_tasks = Len(detection_input_queue) + DequeuedNotDone + 1
        /\ SentinelTaken
  /\ Cardinality(FramesHeldByWorker) <= 1
  /\ finished \subseteq {f \in 1..MaxFrames : Taken(f)}
  /\ finished \cap drained = {}
  /\ wpc = "except" => (frame_data \in raised /\ frame_data \notin finished)
  /\ wpc = "task_done" => (frame_data \notin raised /\ frame_data \notin finished)
  /\ wpc # "crashed"

\* after the cleanup: one frame was marked done on the normal path, one in
\* the except clause, one by the drain, and the sentinel is left unmarked
TaskDoneOnEveryPathWitness ==
  /\ mpc = "exit"
  /\ finished \cap raised # {}
  /\ finished \ raised # {}
  /\ drained # {}
  /\ SentinelTaken
  /\ detection_input_queue = <<>>
  /\ unfinished_tasks = 1
====
